---- MODULE Spec2Model ----
(***************************************************************************)
(* A model of the voice I/O pipeline: the shared VoiceSession, the         *)
(* push-to-talk handler and audio capture, the speech-to-text and          *)
(* text-to-speech fallback chains, the audio player and the playback       *)
(* queue controller.  Each part has its own specification over the same    *)
(* variables; the parts a specification does not exercise stay at their    *)
(* initial values.                                                         *)
(***************************************************************************)
EXTENDS Integers, Sequences, FiniteSets, TLC

VARIABLES
    \* VoiceSession (voice_session.py)
    is_listening, is_playing, pending_responses, last_command, statistics,
    \* the last call made on the session API and how it ended
    call,
    \* SpeechToText / TextToSpeech: the last transcribe or synthesize call
    fb_call,
    \* PushToTalkHandler and AudioCapture (capture.py), the command sink and the
    \* keys physically held down
    ctrl_pressed, space_pressed, is_recording, audio_buffer, stream,
    stt_available, commands, keys_down,
    \* ghost: what became of the last clip handed to _on_audio_captured
    handled,
    \* PlaybackController and AudioPlayer (playback.py): the queue, the worker
    \* loop's position and local item, the player's flags, the buffer the output
    \* device is rendering, and a caller inside interrupt()
    queue, wk_pc, wk_item, player_is_playing, player_should_stop, rendering,
    int_pc,
    \* VoiceOutputManager._process_response on each thread that calls it
    resp_pc, resp_text,
    \* ghosts: audio queued so far, the audio handed to play in order, the
    \* interrupt() calls so far, and the buffer rendered and the number of
    \* buffers queued when the last one began
    n_queued, handed, interrupts, int_snapshot,
    \* how the last call of VoiceOutputManager.interrupt ended
    int_result,
    \* VoiceInteractionManager._on_audio_captured running step by step on the
    \* key listener's thread: position, clip length, captures so far
    in_pc, in_clip, n_captures,
    \* ghosts: the transcription times and the playback-start latencies that
    \* have been fed to the statistics, in order (SpecStats)
    transcription_times, playback_start_times,
    \* ghost: the chunks the device has delivered since recording last started
    \* (SpecCapture)
    delivered,
    \* PlaybackController.start and stop (SpecLifecycle): the controller's
    \* flags, the thread it holds, the caller's position inside stop(), and
    \* the position of every worker thread spawned so far
    ctl_is_active, ctl_should_stop, ctl_thread, ctl_pc, worker_pc,
    \* threads inside a Statistics update (SpecStatsRace): for each thread its
    \* position, the update it runs and the locals of that update
    updaters,
    \* threads calling AudioPlayer.play directly (SpecPlayer): for each thread
    \* its position inside play and the way its last call ended
    callers,
    \* one thread inside AudioPlayer.play or play_streaming while another
    \* calls stop (SpecStreaming): the position of the playing thread, the
    \* chunks it was given, and ghosts for what reached the device
    streamer,
    \* AudioCapture's lock, the thread inside start_recording or
    \* stop_recording and the device thread inside _audio_callback
    \* (SpecCaptureLock)
    lk,
    \* InputOrchestrator and PushToTalkHandler start() and stop() on the main
    \* thread next to the key listener's thread (SpecStop)
    mgr

sessVars == <<is_listening, is_playing, pending_responses, last_command, statistics>>
apiVars == <<call>>
fbVars == <<fb_call>>
pttVars == <<ctrl_pressed, space_pressed, is_recording, audio_buffer, stream,
             stt_available, commands, keys_down, handled>>
pbVars == <<queue, wk_pc, wk_item, player_is_playing, player_should_stop, rendering,
            int_pc, resp_pc, resp_text, n_queued, handed, interrupts, int_snapshot,
                   int_result>>
inVars == <<in_pc, in_clip, n_captures>>
statVars == <<transcription_times, playback_start_times>>
capVars == <<delivered>>
lcVars == <<ctl_is_active, ctl_should_stop, ctl_thread, ctl_pc, worker_pc>>
raceVars == <<updaters>>
playVars == <<callers>>
streamVars == <<streamer>>
lockVars == <<lk>>
stopVars == <<mgr>>
vars == <<sessVars, apiVars, fbVars, pttVars, pbVars, inVars, statVars, capVars, lcVars, raceVars, playVars, streamVars, lockVars, stopVars>>

\* what each part of the model leaves alone
notSession == <<fbVars, pttVars, pbVars, inVars, statVars, capVars, lcVars, raceVars, playVars, streamVars, lockVars, stopVars>>
notFallback == <<sessVars, apiVars, pttVars, pbVars, inVars, statVars, capVars, lcVars, raceVars, playVars, streamVars, lockVars, stopVars>>
notInput == <<apiVars, fbVars, pbVars, inVars, statVars, capVars, lcVars, raceVars, playVars, streamVars, lockVars, stopVars>>
notPlayback == <<apiVars, fbVars, pttVars, inVars, statVars, capVars, lcVars, raceVars, playVars, streamVars, lockVars, stopVars>>
notHandling == <<apiVars, fbVars, pbVars, statVars, capVars, lcVars, raceVars, playVars, streamVars, lockVars, stopVars, ctrl_pressed,
                 space_pressed, is_recording,
                 audio_buffer, stream, stt_available, keys_down, handled>>

(***************************************************************************)
(* Bounds of the model.                                                    *)
(***************************************************************************)
MaxPending == 2
MaxCmds == 1

Texts == {"hello", "stop"}
Timestamps == {1000, 2000}
Durations == {100, 300}
\* an absent string, and an absent record
None == "None"
Nothing == [none |-> TRUE]

(***************************************************************************)
(* Exact rationals in lowest terms, for the running averages.              *)
(***************************************************************************)
RECURSIVE Gcd(_, _)
Gcd(a, b) == IF b = 0 THEN a ELSE Gcd(b, a % b)

Rat(n, d) == LET g == Gcd(n, d) IN [num |-> n \div g, den |-> d \div g]
RatZero == [num |-> 0, den |-> 1]
RatTimesInt(r, k) == Rat(r.num * k, r.den)
RatPlusInt(r, k) == Rat(r.num + k * r.den, r.den)
RatOverInt(r, k) == Rat(r.num, r.den * k)

(***************************************************************************)
(* Statistics                                                              *)
(***************************************************************************)
StatisticsInit ==
    [commands_issued_count |-> 0,
     average_transcription_time_ms |-> RatZero,
     average_playback_start_time_ms |-> RatZero,
     interruptions_count |-> 0]

update_transcription_time_count_first(s, duration_ms) ==
    LET count == s.commands_issued_count + 1
        total == RatTimesInt(s.average_transcription_time_ms, count)
    IN  [s EXCEPT !.commands_issued_count = count,
                  !.average_transcription_time_ms =
                      RatOverInt(RatPlusInt(total, duration_ms), count)]

update_transcription_time(s, duration_ms) ==
    LET total == RatTimesInt(s.average_transcription_time_ms, s.commands_issued_count)
        count == s.commands_issued_count + 1
    IN  [s EXCEPT !.commands_issued_count = count,
                  !.average_transcription_time_ms =
                      RatOverInt(RatPlusInt(total, duration_ms), count)]

update_playback_start_time(s, duration_ms) ==
    LET count == IF s.commands_issued_count > 1 THEN s.commands_issued_count ELSE 1
        total == RatTimesInt(s.average_playback_start_time_ms, count - 1)
    IN  [s EXCEPT !.average_playback_start_time_ms =
                      RatOverInt(RatPlusInt(total, duration_ms), count)]

increment_interruptions(s) ==
    [s EXCEPT !.interruptions_count = s.interruptions_count + 1]

(***************************************************************************)
(* VoiceSession: the guards of its transition methods.                     *)
(***************************************************************************)
post_init_raises(listening, playing) == listening /\ playing

set_listening_raises_unguarded(listening) == FALSE
set_listening_raises(listening) == listening /\ is_playing

set_playing_raises_unguarded(playing) == FALSE
set_playing_raises(playing) == playing /\ is_listening

PendingResponse(text, timestamp, character_transformed) ==
    [text |-> text, timestamp |-> timestamp,
     character_transformed |-> character_transformed]

LastCommand(text, timestamp, duration) ==
    [spoken_text |-> text, transcribed_text |-> text, timestamp |-> timestamp,
     transcription_duration_ms |-> duration]

(***************************************************************************)
(* SpeechToText: provider order and the fallback loop of transcribe.       *)
(***************************************************************************)
WEB_SPEECH_API == "web_speech_api"
WHISPER_API == "whisper_api"
SttProviders == {WEB_SPEECH_API, WHISPER_API}

\* what one provider call can end in: a transcript, or one of the errors the
\* provider functions raise ("crash": an exception that is no SttError)
SttOutcomes(p) ==
    IF p = WEB_SPEECH_API
    THEN {"ok", "unclear", "timeout", "network", "error", "crash"}
    ELSE {"ok", "timeout", "network", "error"}

SeqWithout(seq, x) == SelectSeq(seq, LAMBDA p : p # x)
InSeq(x, seq) == \E i \in 1..Len(seq) : seq[i] = x

stt_available_providers(speech_recognition_available, whisper_usable) ==
    (IF speech_recognition_available THEN <<WEB_SPEECH_API>> ELSE <<>>)
        \o (IF whisper_usable THEN <<WHISPER_API>> ELSE <<>>)

stt_get_provider_order(available, preferred) ==
    IF preferred # None /\ InSeq(preferred, available)
    THEN <<preferred>> \o SeqWithout(available, preferred)
    ELSE available

\* the except clauses of transcribe's loop: SttUnclearAudioError is raised
\* again, every other SttError makes the loop continue, and anything else
\* propagates
stt_except_without_unclear_clause(kind) ==
    IF kind \in {"unclear", "timeout", "network", "error"} THEN "continue" ELSE "propagate"
stt_except_without_network(kind) ==
    IF kind = "unclear" THEN "raise"
    ELSE IF kind \in {"timeout", "error"} THEN "continue" ELSE "propagate"
stt_except(kind) ==
    IF kind = "unclear" THEN "raise"
    ELSE IF kind \in {"timeout", "network", "error"} THEN "continue" ELSE "propagate"

\* last_error = e
stt_keep_first_error(last_error, e) == IF last_error = Nothing THEN e ELSE last_error
stt_keep_error(last_error, e) == e

FbResult(status, value, provider, duration_ms, attempts, last_error) ==
    [status |-> status, value |-> value, provider |-> provider,
     duration_ms |-> duration_ms, attempts |-> attempts, last_error |-> last_error]

RECURSIVE stt_loop(_, _, _, _, _, _, _, _, _)
stt_loop(providers, i, out, txt, dur, start_time, now, attempts, last_error) ==
    IF i > Len(providers)
    THEN FbResult("all_failed", None, None, now - start_time, attempts, last_error)
    ELSE LET provider == providers[i]
             after == now + dur[provider]
             tried == Append(attempts, provider)
             kind == out[provider]
         IN  IF kind = "ok"
             THEN FbResult("ok", txt[provider], provider, after - start_time, tried,
                           last_error)
             ELSE IF stt_except(kind) = "raise"
             THEN FbResult("unclear", None, provider, None, tried,
                           [provider |-> provider, kind |-> kind])
             ELSE IF stt_except(kind) = "continue"
             THEN stt_loop(providers, i + 1, out, txt, dur, start_time, after, tried,
                           stt_keep_error(last_error, [provider |-> provider, kind |-> kind]))
             ELSE FbResult("crash", None, provider, None, tried,
                           [provider |-> provider, kind |-> kind])

transcribe(available, preferred, out, txt, dur, start_time) ==
    IF available = <<>>
    THEN FbResult("no_providers", None, None, None, <<>>, Nothing)
    ELSE stt_loop(stt_get_provider_order(available, preferred), 1, out, txt, dur,
                  start_time, start_time, <<>>, Nothing)

(***************************************************************************)
(* TextToSpeech: provider order and the fallback loop of synthesize.       *)
(***************************************************************************)
SYSTEM == "system"
ELEVENLABS == "elevenlabs"
TtsProviders == {SYSTEM, ELEVENLABS}

\* synthesize_with_system_tts wraps every failure in TtsError; the cloud
\* provider also raises TtsNetworkError and TtsApiError
TtsOutcomes(p) ==
    IF p = ELEVENLABS THEN {"ok", "network", "api", "error"} ELSE {"ok", "error"}

tts_available_providers(pyttsx3_available, elevenlabs_usable) ==
    (IF pyttsx3_available THEN <<SYSTEM>> ELSE <<>>)
        \o (IF elevenlabs_usable THEN <<ELEVENLABS>> ELSE <<>>)

tts_get_provider_order(available, preferred) ==
    IF InSeq(preferred, available)
    THEN <<preferred>> \o SeqWithout(available, preferred)
    ELSE IF InSeq(ELEVENLABS, available)
         THEN <<ELEVENLABS, SYSTEM>>
         ELSE available

\* except (TtsNetworkError, TtsApiError, TtsError): continue
tts_except(kind) ==
    IF kind \in {"network", "api", "error"} THEN "continue" ELSE "propagate"

tts_keep_error(last_error, e) == e

\* the audio a provider returns for a text
Audio(provider, text) == [by |-> provider, of |-> text]

RECURSIVE tts_loop(_, _, _, _, _, _, _, _, _)
tts_loop(providers, i, out, text, dur, start_time, now, attempts, last_error) ==
    IF i > Len(providers)
    THEN FbResult("all_failed", Nothing, None, now - start_time, attempts, last_error)
    ELSE LET provider == providers[i]
             after == now + dur[provider]
             tried == Append(attempts, provider)
             kind == out[provider]
         IN  IF kind = "ok"
             THEN FbResult("ok", Audio(provider, text), provider, after - start_time,
                           tried, last_error)
             ELSE IF tts_except(kind) = "continue"
             THEN tts_loop(providers, i + 1, out, text, dur, start_time, after, tried,
                           tts_keep_error(last_error, [provider |-> provider, kind |-> kind]))
             ELSE FbResult("crash", Nothing, provider, None, tried,
                           [provider |-> provider, kind |-> kind])

EmptyText == ""

synthesize(available, preferred, text, out, dur, start_time) ==
    IF available = <<>>
    THEN FbResult("no_providers", Nothing, None, None, <<>>, Nothing)
    ELSE IF text = EmptyText
    THEN FbResult("empty_text", Nothing, None, None, <<>>, Nothing)
    ELSE tts_loop(tts_get_provider_order(available, preferred), 1, out, text, dur,
                  start_time, start_time, <<>>, Nothing)

(***************************************************************************)
(***************************************************************************)
(* AudioCapture and PushToTalkHandler: key events start and stop capture;  *)
(* stopping hands the clip to VoiceInteractionManager._on_audio_captured,  *)
(* which runs on the key listener's thread until the command is delivered. *)
(***************************************************************************)
MaxChunks == 2

SAMPLE_RATE == 16000
ChunkSizes == {3000, 8000}
CtrlKeys == {"ctrl_l", "ctrl_r"}
Keys == CtrlKeys \cup {"space", "a"}

RECURSIVE SumSeq(_)
SumSeq(seq) == IF seq = <<>> THEN 0 ELSE Head(seq) + SumSeq(Tail(seq))

\* audio_duration < 0.5
clip_too_short_or_equal(n_samples) == 2 * n_samples <= SAMPLE_RATE
clip_too_short(n_samples) == 2 * n_samples < SAMPLE_RATE

\* self.on_command(text): the calls the command sink receives for one
\* transcribed command, each with its text and whether the sink raised
on_command_with_retry(text, raised) ==
    IF raised THEN <<[text |-> text, raised |-> TRUE], [text |-> text, raised |-> TRUE]>>
    ELSE <<[text |-> text, raised |-> FALSE]>>
on_command(text, raised) == <<[text |-> text, raised |-> raised]>>

\* the outcome of one run of _on_audio_captured: the clip's length, how the
\* run ended, whether stt.transcribe was called and the text it returned
Handled(n_samples, outcome, stt_invoked, text) ==
    [n_samples |-> n_samples, outcome |-> outcome, stt_invoked |-> stt_invoked,
     text |-> text]

\* _on_audio_captured: stt.transcribe raised, so the rest of the try block
\* is skipped and the except clause logs the error
transcribe_raised_unless_exhausted(status) == status \notin {"ok", "all_failed"}
transcribe_raised(status) == status # "ok"

\* _on_audio_captured: the session, the last command, the statistics and
\* the commands delivered, after a clip of n_samples has been handled
\* (r is what stt.transcribe returns or raises when it is called)
audio_captured(n_samples, r, timestamp, sink_raises) ==
    IF set_listening_raises(TRUE)
    THEN [is_listening |-> is_listening, last_command |-> last_command,
          statistics |-> statistics, commands |-> commands,
          handled |-> Handled(n_samples, "rejected", FALSE, None)]
    ELSE IF clip_too_short(n_samples)
    THEN [is_listening |-> FALSE, last_command |-> last_command,
          statistics |-> statistics, commands |-> commands,
          handled |-> Handled(n_samples, "too_short", FALSE, None)]
    ELSE IF transcribe_raised(r.status)
    THEN [is_listening |-> FALSE, last_command |-> last_command,
          statistics |-> statistics, commands |-> commands,
          handled |-> Handled(n_samples, r.status, TRUE, None)]
    ELSE [is_listening |-> FALSE,
          last_command |-> LastCommand(r.value, timestamp, r.duration_ms),
          statistics |-> update_transcription_time(statistics, r.duration_ms),
          commands |-> commands \o on_command(r.value, sink_raises),
          handled |-> Handled(n_samples, "ok", TRUE, r.value)]

\* the chord test of _on_key_press and _on_key_release
chord_pressed(ctrl, space) == ctrl /\ space

\* AudioCapture.start_recording; opening the input stream may fail after the
\* recording flag has been set
\* start_recording: the early return when recording is already active
start_returns_early_never == FALSE
start_returns_early == is_recording

start_recording_keeps_buffer(stream_opens) ==
    IF start_returns_early
    THEN UNCHANGED <<is_recording, audio_buffer, stream>>
    ELSE /\ UNCHANGED audio_buffer
         /\ is_recording' = TRUE
         /\ stream' = IF stream_opens THEN "open" ELSE stream

start_recording(stream_opens) ==
    IF start_returns_early
    THEN UNCHANGED <<is_recording, audio_buffer, stream>>
    ELSE /\ audio_buffer' = <<>>
         /\ is_recording' = TRUE
         /\ stream' = IF stream_opens THEN "open" ELSE stream

(***************************************************************************)
(* The state after construction.                                           *)
(***************************************************************************)
SessionInit ==
    /\ is_listening = FALSE
    /\ is_playing = FALSE
    /\ pending_responses = <<>>
    /\ last_command = Nothing
    /\ statistics = StatisticsInit

ApiInit ==
    call = [op |-> "construct", arg |-> <<FALSE, FALSE>>, raised |-> FALSE]

FallbackInit == fb_call = [svc |-> None]

PttInit ==
    /\ ctrl_pressed = FALSE
    /\ space_pressed = FALSE
    /\ is_recording = FALSE
    /\ audio_buffer = <<>>
    /\ stream = None
    /\ stt_available = stt_available_providers(TRUE, TRUE)
    /\ commands = <<>>
    /\ keys_down = {}
    /\ handled = Nothing

\* the threads that call _process_response: the response sink and speak()
Producers == {"sink", "speak"}

PlaybackInit ==
    /\ queue = <<>>
    /\ wk_pc = "loop"
    /\ wk_item = 0
    /\ player_is_playing = FALSE
    /\ player_should_stop = FALSE
    /\ rendering = 0
    /\ int_pc = "idle"
    /\ resp_pc = [t \in Producers |-> "idle"]
    /\ resp_text = [t \in Producers |-> None]
    /\ n_queued = 0
    /\ handed = <<>>
    /\ interrupts = 0
    /\ int_snapshot = [rendering |-> 0, n_queued |-> 0]
    /\ int_result = "none"

HandlingInit ==
    /\ in_pc = "idle"
    /\ in_clip = 0
    /\ n_captures = 0

StatsInit ==
    /\ transcription_times = <<>>
    /\ playback_start_times = <<>>

CaptureInit == delivered = <<>>

MaxWorkers == 2
WorkerIds == 1..MaxWorkers

LifecycleInit ==
    /\ ctl_is_active = FALSE
    /\ ctl_should_stop = FALSE
    /\ ctl_thread = 0
    /\ ctl_pc = "idle"
    /\ worker_pc = [w \in WorkerIds |-> "unborn"]

MaxUpdaters == 2
UpdaterIds == 1..MaxUpdaters
UpdateKinds == {"transcription", "playback_start"}

\* a thread that is not inside a Statistics method
UpdaterIdle ==
    [pc |-> "idle", kind |-> None, duration_ms |-> 0, total |-> RatZero, count |-> 0]

RaceInit == updaters = [t \in UpdaterIds |-> UpdaterIdle]

MaxCallers == 2
CallerIds == 1..MaxCallers

PlayerInit == callers = [c \in CallerIds |-> [pc |-> "idle", result |-> "none"]]

MaxStreamChunks == 2
MaxPlays == 2
ChunkKinds == {"mp3", "garbage"}
ChunkSequences == UNION {[1..n -> ChunkKinds] : n \in 0..MaxStreamChunks}

\* no call in progress and none made yet: calls, starts and stops count the
\* play calls and the runs of the two hooks; limit is the number of device
\* writes that may still be there once the call returns, fixed when stop()
\* sets the flag during the call (-1: it has not); stop_hooks counts the runs
\* of the playback-stop hook in this call
StreamerIdle ==
    [pc |-> "idle", mode |-> None, chunks |-> <<>>, i |-> 0, audio |-> None,
     attempted |-> <<>>, written |-> <<>>, opened |-> FALSE, result |-> "none",
     limit |-> -1, stop_hooks |-> 0, calls |-> 0, starts |-> 0, stops |-> 0]

StreamingInit == streamer = StreamerIdle

\* nobody holds the capture lock, no call and no callback is in progress
LockInit ==
    lk = [owner |-> "none", pc |-> "idle", cb |-> "idle", chunk |-> 0]

\* a constructed orchestrator: nothing is active, no listener thread exists
StopInit ==
    mgr = [is_active |-> FALSE, ptt_is_active |-> FALSE, listener |-> None,
           pc |-> "idle", starts |-> 0, stops |-> 0]

Init ==
    /\ SessionInit /\ ApiInit /\ FallbackInit /\ PttInit /\ PlaybackInit /\ HandlingInit
    /\ StatsInit /\ CaptureInit /\ LifecycleInit /\ RaceInit /\ PlayerInit /\ StreamingInit
    /\ LockInit /\ StopInit

(***************************************************************************)
(* The session API called from one thread (SpecSession).                   *)
(***************************************************************************)
Construct(listening, playing) ==
    /\ call' = [op |-> "construct", arg |-> <<listening, playing>>,
                raised |-> post_init_raises(listening, playing)]
    /\ IF post_init_raises(listening, playing)
       THEN UNCHANGED sessVars
       ELSE /\ is_listening' = listening
            /\ is_playing' = playing
            /\ pending_responses' = <<>>
            /\ last_command' = Nothing
            /\ statistics' = StatisticsInit
    /\ UNCHANGED notSession

SetListening(listening) ==
    /\ call' = [op |-> "set_listening", arg |-> listening,
                raised |-> set_listening_raises(listening)]
    /\ is_listening' = IF set_listening_raises(listening) THEN is_listening ELSE listening
    /\ UNCHANGED <<is_playing, pending_responses, last_command, statistics>>
    /\ UNCHANGED notSession

SetPlaying(playing) ==
    /\ call' = [op |-> "set_playing", arg |-> playing,
                raised |-> set_playing_raises(playing)]
    /\ is_playing' = IF set_playing_raises(playing) THEN is_playing ELSE playing
    /\ UNCHANGED <<is_listening, pending_responses, last_command, statistics>>
    /\ UNCHANGED notSession

QueueResponse(text, timestamp, transformed) ==
    /\ Len(pending_responses) < MaxPending
    /\ pending_responses' =
           Append(pending_responses, PendingResponse(text, timestamp, transformed))
    /\ call' = [op |-> "queue_response", arg |-> text, raised |-> FALSE]
    /\ UNCHANGED <<is_listening, is_playing, last_command, statistics>>
    /\ UNCHANGED notSession

\* dequeue_response: pop(0) of a non-empty list, None of an empty one
dequeue_response_newest(pending) ==
    IF pending # <<>>
    THEN [value |-> pending[Len(pending)], rest |-> SubSeq(pending, 1, Len(pending) - 1)]
    ELSE [value |-> Nothing, rest |-> pending]
dequeue_response(pending) ==
    IF pending # <<>>
    THEN [value |-> Head(pending), rest |-> Tail(pending)]
    ELSE [value |-> Nothing, rest |-> pending]

DequeueResponse ==
    /\ pending_responses' = dequeue_response(pending_responses).rest
    /\ call' = [op |-> "dequeue_response",
                arg |-> dequeue_response(pending_responses).value,
                raised |-> FALSE]
    /\ UNCHANGED <<is_listening, is_playing, last_command, statistics>>
    /\ UNCHANGED notSession

RecordCommand(text, timestamp, duration) ==
    /\ statistics.commands_issued_count < MaxCmds
    /\ last_command' = LastCommand(text, timestamp, duration)
    /\ statistics' = update_transcription_time(statistics, duration)
    /\ call' = [op |-> "update_transcription_time", arg |-> duration, raised |-> FALSE]
    /\ UNCHANGED <<is_listening, is_playing, pending_responses>>
    /\ UNCHANGED notSession


SessionNext ==
    \/ \E l \in BOOLEAN, p \in BOOLEAN : Construct(l, p)
    \/ \E b \in BOOLEAN : SetListening(b)
    \/ \E b \in BOOLEAN : SetPlaying(b)
    \/ \E t \in Texts, ts \in Timestamps, tr \in BOOLEAN : QueueResponse(t, ts, tr)
    \/ DequeueResponse
    \/ \E t \in Texts, ts \in Timestamps, d \in Durations : RecordCommand(t, ts, d)

SpecSession == Init /\ [][SessionNext]_vars

(***************************************************************************)
(* The two services called with every combination of availability,         *)
(* preference and provider behaviour (SpecFallback).                       *)
(***************************************************************************)
ProviderTimes == {20, 700}
StartTimes == {0, 5000}

Transcribe(available, preferred, out, txt, dur, start_time) ==
    /\ fb_call.svc = None
    /\ fb_call' = [svc |-> "stt", available |-> available, preferred |-> preferred,
                   providers |-> stt_get_provider_order(available, preferred),
                   out |-> out, txt |-> txt, dur |-> dur,
                   result |-> transcribe(available, preferred, out, txt, dur, start_time)]
    /\ UNCHANGED notFallback

Synthesize(available, preferred, text, out, dur, start_time) ==
    /\ fb_call.svc = None
    /\ fb_call' = [svc |-> "tts", available |-> available, preferred |-> preferred,
                   providers |-> tts_get_provider_order(available, preferred),
                   out |-> out, text |-> text, dur |-> dur,
                   result |-> synthesize(available, preferred, text, out, dur, start_time)]
    /\ UNCHANGED notFallback

\* how each provider behaves during one call; a provider whose library or key
\* is missing raises the base error as soon as it is called
\* the caller has taken the result (or the error); the service is idle again
FallbackReturn ==
    /\ fb_call.svc # None
    /\ fb_call' = [svc |-> None]
    /\ UNCHANGED notFallback

SttBehaviours(available) ==
    {f \in [SttProviders -> UNION {SttOutcomes(p) : p \in SttProviders}] :
        \A p \in SttProviders :
            /\ f[p] \in SttOutcomes(p)
            /\ ~InSeq(p, available) => f[p] = "error"}
TtsBehaviours(available) ==
    {f \in [TtsProviders -> UNION {TtsOutcomes(p) : p \in TtsProviders}] :
        \A p \in TtsProviders :
            /\ f[p] \in TtsOutcomes(p)
            /\ ~InSeq(p, available) => f[p] = "error"}

FallbackNext ==
    \/ \E sr \in BOOLEAN, wh \in BOOLEAN :
        \E pref \in SttProviders \cup {None},
           out \in SttBehaviours(stt_available_providers(sr, wh)),
           txt \in [SttProviders -> Texts],
           dur \in [SttProviders -> ProviderTimes], t0 \in StartTimes :
            Transcribe(stt_available_providers(sr, wh), pref, out, txt, dur, t0)
    \/ \E py \in BOOLEAN, el \in BOOLEAN :
        \E pref \in TtsProviders, text \in Texts \cup {EmptyText},
           out \in TtsBehaviours(tts_available_providers(py, el)),
           dur \in [TtsProviders -> ProviderTimes], t0 \in StartTimes :
            Synthesize(tts_available_providers(py, el), pref, text, out, dur, t0)
    \/ FallbackReturn

SpecFallback == Init /\ [][FallbackNext]_vars

Transient == {"timeout", "network", "api", "error"}

\* the time one speech-to-text call takes where only the outcome matters
RecognitionTimes == {20}

(***************************************************************************)
(* Key events, device chunks and the playback worker's session updates     *)
(* (SpecInput).                                                            *)
(***************************************************************************)
OnKeyPress(key, stream_opens) ==
    /\ keys_down' = keys_down \cup {key}
    /\ ctrl_pressed' = (ctrl_pressed \/ key \in CtrlKeys)
    /\ space_pressed' = (space_pressed \/ key = "space")
    /\ IF chord_pressed(ctrl_pressed', space_pressed') /\ ~is_recording
       THEN /\ statistics.commands_issued_count < MaxCmds
            /\ start_recording(stream_opens)
       ELSE /\ stream_opens
            /\ UNCHANGED <<is_recording, audio_buffer, stream>>
    /\ UNCHANGED <<sessVars, stt_available, commands, handled>>
    /\ UNCHANGED notInput

\* the device thread delivers a chunk
AudioCallback(chunk) ==
    /\ stream = "open"
    /\ Len(audio_buffer) < MaxChunks
    /\ audio_buffer' = IF is_recording THEN Append(audio_buffer, chunk) ELSE audio_buffer
    /\ UNCHANGED <<ctrl_pressed, space_pressed, is_recording, stream, stt_available,
                   commands, keys_down, handled>>
    /\ UNCHANGED sessVars
    /\ UNCHANGED notInput

OnKeyRelease(key) ==
    /\ key \in keys_down
    /\ keys_down' = keys_down \ {key}
    /\ ctrl_pressed' = (ctrl_pressed /\ key \notin CtrlKeys)
    /\ space_pressed' = (space_pressed /\ key # "space")
    /\ IF ~chord_pressed(ctrl_pressed', space_pressed') /\ is_recording
       THEN \* AudioCapture.stop_recording
            /\ is_recording' = FALSE
            /\ stream' = None
            /\ UNCHANGED audio_buffer
            /\ IF audio_buffer = <<>>
               THEN UNCHANGED <<sessVars, commands, handled>>
               ELSE \E out \in SttBehaviours(stt_available),
                       txt \in [SttProviders -> Texts],
                       dur \in [SttProviders -> RecognitionTimes],
                       timestamp \in Timestamps, sink_raises \in BOOLEAN :
                    LET r == transcribe(stt_available, None, out, txt, dur, 0)
                        after == audio_captured(SumSeq(audio_buffer), r, timestamp,
                                                sink_raises)
                    IN  /\ is_listening' = after.is_listening
                        /\ last_command' = after.last_command
                        /\ statistics' = after.statistics
                        /\ commands' = after.commands
                        /\ handled' = after.handled
                        /\ UNCHANGED <<is_playing, pending_responses>>
       ELSE UNCHANGED <<is_recording, stream, audio_buffer, sessVars, commands,
                        handled>>
    /\ UNCHANGED stt_available
    /\ UNCHANGED notInput

InputNext ==
    \/ \E key \in Keys, stream_opens \in BOOLEAN : OnKeyPress(key, stream_opens)
    \/ \E chunk \in ChunkSizes : AudioCallback(chunk)
    \/ \E key \in Keys : OnKeyRelease(key)
    \* the playback worker of an output manager sharing the session
    \/ \E b \in BOOLEAN : SetPlaying(b)

SpecInput == Init /\ [][InputNext]_vars

(***************************************************************************)
(* _on_audio_captured as one step per captured clip, next to the playback  *)
(* worker's session updates (SpecHandler).                                 *)
(***************************************************************************)
ClipLengths == {3000, 7999, 8000}

\* PushToTalkHandler._on_recording_stop hands a clip of n_samples to
\* _on_audio_captured, which runs to its return
HandleClip(n_samples) ==
    /\ statistics.commands_issued_count < MaxCmds
    /\ call' = [op |-> "audio_captured", arg |-> n_samples, raised |-> FALSE]
    /\ IF set_listening_raises(TRUE) \/ clip_too_short(n_samples)
       THEN LET after == audio_captured(n_samples, Nothing, 0, FALSE)
            IN  /\ is_listening' = after.is_listening
                /\ handled' = after.handled
                /\ UNCHANGED <<last_command, statistics, commands>>
       ELSE \E out \in SttBehaviours(stt_available), txt \in [SttProviders -> Texts],
               dur \in [SttProviders -> ProviderTimes], timestamp \in Timestamps,
               sink_raises \in BOOLEAN :
            LET r == transcribe(stt_available, None, out, txt, dur, 0)
                after == audio_captured(n_samples, r, timestamp, sink_raises)
            IN  /\ is_listening' = after.is_listening
                /\ last_command' = after.last_command
                /\ statistics' = after.statistics
                /\ commands' = after.commands
                /\ handled' = after.handled
    /\ UNCHANGED <<is_playing, pending_responses>>
    /\ UNCHANGED <<ctrl_pressed, space_pressed, is_recording, audio_buffer, stream,
                   stt_available, keys_down>>
    /\ UNCHANGED <<fbVars, pbVars, inVars, statVars, capVars, lcVars, raceVars, playVars, streamVars, lockVars, stopVars>>

HandlerNext ==
    \/ \E n_samples \in ClipLengths : HandleClip(n_samples)
    \* the playback worker of an output manager sharing the session
    \/ \E playing \in BOOLEAN : SetPlaying(playing)

SpecHandler == Init /\ [][HandlerNext]_vars

(***************************************************************************)
(* PlaybackController, AudioPlayer and the hooks of VoiceOutputManager,    *)
(* statement by statement (SpecPlayback).  Audio buffers are numbered in   *)
(* the order queue_audio appended them; 0 stands for no buffer.            *)
(***************************************************************************)
MaxItems == 2
MaxInterrupts == 1

\* the providers of the output manager's TextToSpeech and its preference
TtsAvailable == tts_available_providers(TRUE, TRUE)
TtsPreferred == SYSTEM
SynthesisTimes == {20}
ResponseTexts == {"hello", EmptyText}

\* self._queue.pop(0)
pop_last(q) == [item |-> q[Len(q)], rest |-> SubSeq(q, 1, Len(q) - 1)]
pop_head(q) == [item |-> Head(q), rest |-> Tail(q)]

\* AudioPlayer.stop: the flag it sets, and what it does to the output device
stop_sets_flag == player_is_playing
stop_halts_device == FALSE

\* the call statistics.increment_interruptions(latency_ms) passes an argument;
\* Statistics.increment_interruptions(self) takes none
interrupt_passes_latency == TRUE
increment_interruptions_takes_latency == FALSE

\* _process_response: tts.synthesize raised, so the except clause logs the
\* error and the rest of the try block is skipped
synthesis_failed_unless_exhausted(status) == status \notin {"ok", "all_failed"}
synthesis_failed(status) == status # "ok"

\* _process_response up to the synthesis result: a failed synthesis drops the
\* response, a successful one updates the playback-start statistics
ProcessResponse(t, text, out, dur) ==
    /\ resp_pc[t] = "idle"
    /\ n_queued + Cardinality({u \in Producers : resp_pc[u] = "queue_audio"}) < MaxItems
    /\ LET r == synthesize(TtsAvailable, TtsPreferred, text, out, dur, 0)
       IN  IF ~synthesis_failed(r.status)
           THEN /\ statistics' = update_playback_start_time(statistics, r.duration_ms)
                /\ resp_pc' = [resp_pc EXCEPT ![t] = "queue_audio"]
                /\ resp_text' = [resp_text EXCEPT ![t] = text]
           ELSE UNCHANGED <<statistics, resp_pc, resp_text>>
    /\ UNCHANGED <<is_listening, is_playing, pending_responses, last_command>>
    /\ UNCHANGED <<queue, wk_pc, wk_item, player_is_playing, player_should_stop,
                   rendering, int_pc, n_queued, handed, interrupts, int_snapshot,
                   int_result>>
    /\ UNCHANGED notPlayback

\* PlaybackController.queue_audio, called by _process_response
QueueAudio(t) ==
    /\ resp_pc[t] = "queue_audio"
    /\ n_queued' = n_queued + 1
    /\ queue' = Append(queue, n_queued')
    /\ resp_pc' = [resp_pc EXCEPT ![t] = "queue_response"]
    /\ UNCHANGED <<wk_pc, wk_item, player_is_playing, player_should_stop, rendering,
                   int_pc, resp_text, handed, interrupts, int_snapshot,
                   int_result>>
    /\ UNCHANGED sessVars
    /\ UNCHANGED notPlayback

\* session.queue_response, the last statement of _process_response
QueueResponseFor(t) ==
    /\ resp_pc[t] = "queue_response"
    /\ pending_responses' =
           Append(pending_responses, PendingResponse(resp_text[t], 1000, FALSE))
    /\ resp_pc' = [resp_pc EXCEPT ![t] = "idle"]
    /\ resp_text' = [resp_text EXCEPT ![t] = None]
    /\ UNCHANGED <<is_listening, is_playing, last_command, statistics>>
    /\ UNCHANGED <<queue, wk_pc, wk_item, player_is_playing, player_should_stop,
                   rendering, int_pc, n_queued, handed, interrupts, int_snapshot,
                   int_result>>
    /\ UNCHANGED notPlayback

\* _controller_loop: take the head of the queue under the lock
WorkerPop ==
    /\ wk_pc = "loop"
    /\ queue # <<>>
    /\ wk_item' = pop_head(queue).item
    /\ queue' = pop_head(queue).rest
    /\ wk_pc' = "play"
    /\ UNCHANGED <<player_is_playing, player_should_stop, rendering, int_pc, resp_pc,
                   resp_text, n_queued, handed, interrupts, int_snapshot,
                   int_result>>
    /\ UNCHANGED sessVars
    /\ UNCHANGED notPlayback

\* _controller_loop: the queue is empty, notify and sleep
WorkerQueueEmpty ==
    /\ wk_pc = "loop"
    /\ queue = <<>>
    /\ wk_pc' = "sleep"
    /\ UNCHANGED <<queue, wk_item, player_is_playing, player_should_stop, rendering,
                   int_pc, resp_pc, resp_text, n_queued, handed, interrupts,
                   int_snapshot,
                   int_result>>
    /\ UNCHANGED sessVars
    /\ UNCHANGED notPlayback

WorkerWake ==
    /\ wk_pc = "sleep"
    /\ wk_pc' = "loop"
    /\ UNCHANGED <<queue, wk_item, player_is_playing, player_should_stop, rendering,
                   int_pc, resp_pc, resp_text, n_queued, handed, interrupts,
                   int_snapshot,
                   int_result>>
    /\ UNCHANGED sessVars
    /\ UNCHANGED notPlayback

\* _controller_loop: the except clause around player.play prints the error
\* and the loop goes on
after_play_error_uncaught == "dead"
after_play_error == "loop"

\* AudioPlayer.play up to the first statements of _play_array; a busy player
\* or a buffer that does not decode raises PlaybackError, which the worker
\* catches and prints
PlayerPlay(decodes) ==
    /\ wk_pc = "play"
    /\ handed' = Append(handed, wk_item)
    /\ IF player_is_playing \/ ~decodes
       THEN /\ wk_pc' = after_play_error
            /\ wk_item' = 0
            /\ UNCHANGED <<player_is_playing, player_should_stop>>
       ELSE /\ player_is_playing' = TRUE
            /\ player_should_stop' = FALSE
            /\ wk_pc' = "start_hook"
            /\ UNCHANGED wk_item
    /\ UNCHANGED <<queue, rendering, int_pc, resp_pc, resp_text, n_queued, interrupts,
                   int_snapshot,
                   int_result>>
    /\ UNCHANGED sessVars
    /\ UNCHANGED notPlayback

\* _on_playback_start: the test of session.set_playing(True); a rejection is
\* logged and the hook returns
StartHookCheck ==
    /\ wk_pc = "start_hook"
    /\ wk_pc' = IF set_playing_raises(TRUE) THEN "render" ELSE "start_hook_write"
    /\ UNCHANGED <<queue, wk_item, player_is_playing, player_should_stop, rendering,
                   int_pc, resp_pc, resp_text, n_queued, handed, interrupts,
                   int_snapshot,
                   int_result>>
    /\ UNCHANGED sessVars
    /\ UNCHANGED notPlayback

\* _on_playback_start: the assignment of session.set_playing(True)
StartHookWrite ==
    /\ wk_pc = "start_hook_write"
    /\ is_playing' = TRUE
    /\ wk_pc' = "render"
    /\ UNCHANGED <<is_listening, pending_responses, last_command, statistics>>
    /\ UNCHANGED <<queue, wk_item, player_is_playing, player_should_stop, rendering,
                   int_pc, resp_pc, resp_text, n_queued, handed, interrupts,
                   int_snapshot,
                   int_result>>
    /\ UNCHANGED notPlayback

\* _play_array: sd.play hands the buffer to the output device
RenderStart ==
    /\ wk_pc = "render"
    /\ rendering' = wk_item
    /\ wk_pc' = "wait"
    /\ UNCHANGED <<queue, wk_item, player_is_playing, player_should_stop, int_pc,
                   resp_pc, resp_text, n_queued, handed, interrupts, int_snapshot,
                   int_result>>
    /\ UNCHANGED sessVars
    /\ UNCHANGED notPlayback

\* _play_array: sd.wait returns when the device has finished the buffer
RenderEnd ==
    /\ wk_pc = "wait"
    /\ rendering' = 0
    /\ wk_pc' = "finally"
    /\ UNCHANGED <<queue, wk_item, player_is_playing, player_should_stop, int_pc,
                   resp_pc, resp_text, n_queued, handed, interrupts, int_snapshot,
                   int_result>>
    /\ UNCHANGED sessVars
    /\ UNCHANGED notPlayback

\* _play_array: the finally clause clears the player's flag
PlayFinally ==
    /\ wk_pc = "finally"
    /\ player_is_playing' = FALSE
    /\ wk_pc' = "stop_hook"
    /\ UNCHANGED <<queue, wk_item, player_should_stop, rendering, int_pc, resp_pc,
                   resp_text, n_queued, handed, interrupts, int_snapshot,
                   int_result>>
    /\ UNCHANGED sessVars
    /\ UNCHANGED notPlayback

\* _on_playback_stop: session.set_playing(False)
StopHookSetPlaying ==
    /\ wk_pc = "stop_hook"
    /\ is_playing' = FALSE
    /\ wk_pc' = "stop_hook_dequeue"
    /\ UNCHANGED <<is_listening, pending_responses, last_command, statistics>>
    /\ UNCHANGED <<queue, wk_item, player_is_playing, player_should_stop, rendering,
                   int_pc, resp_pc, resp_text, n_queued, handed, interrupts,
                   int_snapshot,
                   int_result>>
    /\ UNCHANGED notPlayback

\* _on_playback_stop: session.dequeue_response(); play returns to the loop
StopHookDequeue ==
    /\ wk_pc = "stop_hook_dequeue"
    /\ pending_responses' =
           IF pending_responses # <<>> THEN Tail(pending_responses) ELSE pending_responses
    /\ wk_pc' = "loop"
    /\ wk_item' = 0
    /\ UNCHANGED <<is_listening, is_playing, last_command, statistics>>
    /\ UNCHANGED <<queue, player_is_playing, player_should_stop, rendering, int_pc,
                   resp_pc, resp_text, n_queued, handed, interrupts, int_snapshot,
                   int_result>>
    /\ UNCHANGED notPlayback

\* PlaybackController.interrupt: self.player.stop()
InterruptStop ==
    /\ int_pc = "idle"
    /\ interrupts < MaxInterrupts
    /\ interrupts' = interrupts + 1
    /\ int_snapshot' = [rendering |-> rendering, n_queued |-> n_queued]
    /\ player_should_stop' = (player_should_stop \/ stop_sets_flag)
    /\ rendering' = IF stop_halts_device THEN 0 ELSE rendering
    /\ int_pc' = "clear"
    /\ UNCHANGED <<queue, wk_pc, wk_item, player_is_playing, resp_pc, resp_text,
                   n_queued, handed, int_result>>
    /\ UNCHANGED sessVars
    /\ UNCHANGED notPlayback

\* PlaybackController.interrupt: clear the queue under the lock and return
\* the latency to VoiceOutputManager.interrupt
InterruptClear ==
    /\ int_pc = "clear"
    /\ queue' = <<>>
    /\ int_pc' = "record"
    /\ UNCHANGED <<wk_pc, wk_item, player_is_playing, player_should_stop, rendering,
                   resp_pc, resp_text, n_queued, handed, interrupts, int_snapshot,
                   int_result>>
    /\ UNCHANGED sessVars
    /\ UNCHANGED notPlayback

\* _process_response on the threads T
\* VoiceOutputManager.interrupt: statistics.increment_interruptions(latency_ms);
\* a call whose arguments do not fit the method's signature raises TypeError
\* before the method's body runs
InterruptRecord ==
    /\ int_pc = "record"
    /\ IF interrupt_passes_latency # increment_interruptions_takes_latency
       THEN /\ int_result' = "TypeError"
            /\ UNCHANGED statistics
       ELSE /\ int_result' = "returned"
            /\ statistics' = increment_interruptions(statistics)
    /\ int_pc' = "idle"
    /\ UNCHANGED <<is_listening, is_playing, pending_responses, last_command>>
    /\ UNCHANGED <<queue, wk_pc, wk_item, player_is_playing, player_should_stop,
                   rendering, resp_pc, resp_text, n_queued, handed, interrupts,
                   int_snapshot>>
    /\ UNCHANGED notPlayback

Producing(T) ==
    \/ \E t \in T, text \in ResponseTexts,
          out \in TtsBehaviours(TtsAvailable), dur \in [TtsProviders -> SynthesisTimes] :
            ProcessResponse(t, text, out, dur)
    \/ \E t \in T : QueueAudio(t)
    \/ \E t \in T : QueueResponseFor(t)

Worker ==
    \/ WorkerPop
    \/ WorkerQueueEmpty
    \/ WorkerWake
    \/ \E decodes \in BOOLEAN : PlayerPlay(decodes)
    \/ StartHookCheck
    \/ StartHookWrite
    \/ RenderStart
    \/ RenderEnd
    \/ PlayFinally
    \/ StopHookSetPlaying
    \/ StopHookDequeue

PlaybackNext ==
    \/ Producing(Producers)
    \/ Worker
    \/ InterruptStop
    \/ InterruptClear
    \/ InterruptRecord

SpecPlayback == Init /\ [][PlaybackNext]_vars

(***************************************************************************)
(* _process_response as one step per response, next to the playback worker *)
(* (SpecResponder).                                                        *)
(***************************************************************************)
\* the clock reading taken for the k-th response that reaches the queues: the
\* clock has advanced between two responses, so the reading tells them apart
response_timestamp(k) == 1000 * k

\* speak() or the response sink runs _process_response(text) to its return
Respond(text, out, dur) ==
    /\ n_queued < MaxItems
    /\ LET r == synthesize(TtsAvailable, TtsPreferred, text, out, dur, 0)
       IN  /\ call' = [op |-> "process_response",
                       arg |-> [text |-> text, attempts |-> Len(r.attempts)],
                       raised |-> r.status # "ok"]
           /\ IF synthesis_failed(r.status)
              THEN UNCHANGED <<statistics, n_queued, queue, pending_responses>>
              ELSE /\ statistics' = update_playback_start_time(statistics, r.duration_ms)
                   /\ n_queued' = n_queued + 1
                   /\ queue' = Append(queue, n_queued')
                   /\ pending_responses' =
                          Append(pending_responses,
                                 PendingResponse(text, response_timestamp(n_queued'), FALSE))
    /\ UNCHANGED <<is_listening, is_playing, last_command>>
    /\ UNCHANGED <<wk_pc, wk_item, player_is_playing, player_should_stop, rendering,
                   int_pc, resp_pc, resp_text, handed, interrupts, int_snapshot,
                   int_result>>
    /\ UNCHANGED <<fbVars, pttVars, inVars, statVars, capVars, lcVars, raceVars, playVars, streamVars, lockVars, stopVars>>

ResponderNext ==
    \/ \E text \in Texts \cup {EmptyText}, out \in TtsBehaviours(TtsAvailable),
          dur \in [TtsProviders -> ProviderTimes] : Respond(text, out, dur)
    \/ Worker

SpecResponder == Init /\ [][ResponderNext]_vars

\* the worker thread keeps being scheduled, and every play call returns or
\* raises
SpecResponderFair == SpecResponder /\ WF_vars(Worker)

(***************************************************************************)
(* VoiceInteractionManager._on_audio_captured statement by statement, on   *)
(* a session that the playback hooks above share (SpecShared).  The        *)
(* capture lock keeps two deliveries from overlapping.                     *)
(***************************************************************************)
MaxCaptures == 1
ClipSizes == {3000, 8000}
HeardTexts == {"hello"}

\* where _on_audio_captured continues once transcription has returned or
\* raised: every outcome reaches the finally clause
after_transcribe_success_only(status) == IF status = "ok" THEN "finally" ELSE "idle"
after_transcribe(status) == "finally"

\* PushToTalkHandler delivers a non-empty clip to _on_audio_captured
AudioCaptured(n_samples) ==
    /\ in_pc = "idle"
    /\ n_captures < MaxCaptures
    /\ n_captures' = n_captures + 1
    /\ in_clip' = n_samples
    /\ in_pc' = "set_listening"
    /\ UNCHANGED <<sessVars, commands>>
    /\ UNCHANGED notHandling

\* the test of session.set_listening(True); a rejection is logged and the
\* handler returns
SetListeningCheck ==
    /\ in_pc = "set_listening"
    /\ IF set_listening_raises(TRUE)
       THEN in_pc' = "idle" /\ in_clip' = 0
       ELSE in_pc' = "set_listening_write" /\ UNCHANGED in_clip
    /\ UNCHANGED <<n_captures, sessVars, commands>>
    /\ UNCHANGED notHandling

\* the assignment of session.set_listening(True)
SetListeningWrite ==
    /\ in_pc = "set_listening_write"
    /\ is_listening' = TRUE
    /\ in_pc' = "duration"
    /\ UNCHANGED <<in_clip, n_captures, commands>>
    /\ UNCHANGED <<is_playing, pending_responses, last_command, statistics>>
    /\ UNCHANGED notHandling

\* the length test: a clip under half a second resets the flag and returns
DurationCheck ==
    /\ in_pc = "duration"
    /\ IF clip_too_short(in_clip)
       THEN /\ is_listening' = FALSE
            /\ in_pc' = "idle"
       ELSE /\ in_pc' = "transcribe"
            /\ UNCHANGED is_listening
    /\ in_clip' = 0
    /\ UNCHANGED <<n_captures, commands>>
    /\ UNCHANGED <<is_playing, pending_responses, last_command, statistics>>
    /\ UNCHANGED notHandling

\* the try block: transcribe, record the command, update the statistics and
\* call the command sink; every exception is caught and printed
TranscribeAndDeliver(out, txt, dur, timestamp, sink_raises) ==
    /\ in_pc = "transcribe"
    /\ LET r == transcribe(stt_available, None, out, txt, dur, 0)
       IN  /\ IF r.status = "ok"
              THEN /\ last_command' = LastCommand(r.value, timestamp, r.duration_ms)
                   /\ statistics' = update_transcription_time(statistics, r.duration_ms)
                   /\ commands' = commands \o on_command(r.value, sink_raises)
              ELSE UNCHANGED <<last_command, statistics, commands>>
           /\ in_pc' = after_transcribe(r.status)
    /\ UNCHANGED <<in_clip, n_captures, is_listening, is_playing, pending_responses>>
    /\ UNCHANGED notHandling

\* the finally clause: session.set_listening(False)
HandlingFinally ==
    /\ in_pc = "finally"
    /\ is_listening' = FALSE
    /\ in_pc' = "idle"
    /\ UNCHANGED <<in_clip, n_captures, commands>>
    /\ UNCHANGED <<is_playing, pending_responses, last_command, statistics>>
    /\ UNCHANGED notHandling

\* the statements of a handler that has been entered
HandlingStep ==
    \/ SetListeningCheck
    \/ SetListeningWrite
    \/ DurationCheck
    \/ \E out \in SttBehaviours(stt_available), txt \in [SttProviders -> HeardTexts],
          dur \in [SttProviders -> RecognitionTimes], sink_raises \in BOOLEAN :
            TranscribeAndDeliver(out, txt, dur, 1000 * n_captures, sink_raises)
    \/ HandlingFinally

SharedNext ==
    \/ \E n_samples \in ClipSizes : AudioCaptured(n_samples)
    \/ HandlingStep
    \/ Producing({"sink"})
    \/ Worker

SpecShared == Init /\ [][SharedNext]_vars

\* the listener thread keeps running: a handler that has been entered is
\* scheduled until it returns, and every speech-to-text call returns or raises
SpecSharedFair == SpecShared /\ WF_vars(HandlingStep)

(***************************************************************************)
(* Statistics fed with measurements, starting from fresh Statistics        *)
(* (SpecStats).                                                            *)
(***************************************************************************)
MaxUpdates == 3
Measurements == {100, 200, 300}

UpdateTranscriptionTime(duration_ms) ==
    /\ Len(transcription_times) + Len(playback_start_times) < MaxUpdates
    /\ statistics' = update_transcription_time(statistics, duration_ms)
    /\ transcription_times' = Append(transcription_times, duration_ms)
    /\ UNCHANGED <<is_listening, is_playing, pending_responses, last_command>>
    /\ UNCHANGED playback_start_times
    /\ UNCHANGED <<apiVars, fbVars, pttVars, pbVars, inVars, capVars, lcVars, raceVars, playVars, streamVars, lockVars, stopVars>>

UpdatePlaybackStartTime(duration_ms) ==
    /\ Len(transcription_times) + Len(playback_start_times) < MaxUpdates
    /\ statistics' = update_playback_start_time(statistics, duration_ms)
    /\ playback_start_times' = Append(playback_start_times, duration_ms)
    /\ UNCHANGED <<is_listening, is_playing, pending_responses, last_command>>
    /\ UNCHANGED transcription_times
    /\ UNCHANGED <<apiVars, fbVars, pttVars, pbVars, inVars, capVars, lcVars, raceVars, playVars, streamVars, lockVars, stopVars>>

StatsNext ==
    \/ \E duration_ms \in Measurements : UpdateTranscriptionTime(duration_ms)
    \/ \E duration_ms \in Measurements : UpdatePlaybackStartTime(duration_ms)

SpecStats == Init /\ [][StatsNext]_vars

(***************************************************************************)
(* AudioCapture called directly: start_recording, the device callback and  *)
(* stop_recording, each recorded with the call that preceded it            *)
(* (SpecCapture).  A chunk is known by its length.                         *)
(***************************************************************************)
\* the lengths of the blocks the input stream hands to the callback
BlockSizes == {256, 512, 1024, 2048}

\* stop_recording: the early return when nothing is being recorded
stop_returns_early_never == FALSE
stop_returns_early == ~is_recording

\* AudioCapture.start_recording(); the call tells whether it opened a stream,
\* whether it called on_recording_start and whether opening the stream raised
CaptureStart(stream_opens) ==
    /\ call' = [op |-> "start_recording",
                arg |-> [opened |-> ~start_returns_early /\ stream_opens,
                         hook |-> ~start_returns_early /\ stream_opens],
                raised |-> ~start_returns_early /\ ~stream_opens,
                after |-> call.op]
    /\ IF start_returns_early
       THEN UNCHANGED <<is_recording, audio_buffer, stream, delivered>>
       ELSE /\ start_recording(stream_opens)
            /\ delivered' = <<>>
    /\ UNCHANGED <<ctrl_pressed, space_pressed, stt_available, commands, keys_down,
                   handled>>
    /\ UNCHANGED <<sessVars, fbVars, pbVars, inVars, statVars, lcVars, raceVars, playVars, streamVars, lockVars, stopVars>>

\* AudioCapture._audio_callback(indata, ...) on the device thread
CaptureCallback(chunk) ==
    /\ stream = "open"
    /\ Len(delivered) < MaxChunks
    /\ call' = [op |-> "audio_callback", arg |-> chunk, raised |-> FALSE,
                after |-> call.op]
    /\ audio_buffer' = IF is_recording THEN Append(audio_buffer, chunk) ELSE audio_buffer
    /\ delivered' = Append(delivered, chunk)
    /\ UNCHANGED <<ctrl_pressed, space_pressed, is_recording, stream, stt_available,
                   commands, keys_down, handled>>
    /\ UNCHANGED <<sessVars, fbVars, pbVars, inVars, statVars, lcVars, raceVars, playVars, streamVars, lockVars, stopVars>>

\* AudioCapture.stop_recording(); the call holds what it returned (None, or the
\* concatenation of the buffered chunks with its length) and whether it called
\* on_recording_stop
CaptureStop ==
    /\ IF stop_returns_early
       THEN /\ call' = [op |-> "stop_recording",
                        arg |-> [returned |-> "none", data |-> <<>>, n_samples |-> 0,
                                 hook |-> FALSE],
                        raised |-> FALSE, after |-> call.op]
            /\ UNCHANGED <<is_recording, stream>>
       ELSE /\ is_recording' = FALSE
            /\ stream' = None
            /\ call' = [op |-> "stop_recording",
                        arg |-> IF audio_buffer = <<>>
                                THEN [returned |-> "none", data |-> <<>>,
                                      n_samples |-> 0, hook |-> FALSE]
                                ELSE [returned |-> "data", data |-> audio_buffer,
                                      n_samples |-> SumSeq(audio_buffer),
                                      hook |-> TRUE],
                        raised |-> FALSE, after |-> call.op]
    /\ UNCHANGED <<audio_buffer, delivered>>
    /\ UNCHANGED <<ctrl_pressed, space_pressed, stt_available, commands, keys_down,
                   handled>>
    /\ UNCHANGED <<sessVars, fbVars, pbVars, inVars, statVars, lcVars, raceVars, playVars, streamVars, lockVars, stopVars>>

CaptureNext ==
    \/ \E stream_opens \in BOOLEAN : CaptureStart(stream_opens)
    \/ \E chunk \in BlockSizes : CaptureCallback(chunk)
    \/ CaptureStop

SpecCapture == Init /\ [][CaptureNext]_vars

(***************************************************************************)
(* PlaybackController.start and stop, called one after another, with the   *)
(* worker threads they spawn and join (SpecLifecycle).  A worker is        *)
(* "unborn" until start creates it, then at the loop test ("while"), at    *)
(* the pop ("take"), at the busy test of player.play ("check"), past it    *)
(* ("begin"), blocked in the device ("play") or "exited".                  *)
(***************************************************************************)
Alive(w) == worker_pc[w] \in {"while", "take", "check", "begin", "play"}

\* the loop test of _controller_loop
loop_continues(w) == ~ctl_should_stop

\* PlaybackController.start()
ControllerStart ==
    /\ ctl_pc = "idle"
    /\ IF ctl_is_active
       THEN UNCHANGED <<ctl_is_active, ctl_should_stop, ctl_thread, worker_pc>>
       ELSE \E w \in WorkerIds :
               /\ worker_pc[w] = "unborn"
               /\ \A v \in WorkerIds : v < w => worker_pc[v] # "unborn"
               /\ ctl_is_active' = TRUE
               /\ ctl_should_stop' = FALSE
               /\ ctl_thread' = w
               /\ worker_pc' = [worker_pc EXCEPT ![w] = "while"]
    /\ UNCHANGED ctl_pc
    /\ UNCHANGED <<sessVars, apiVars, fbVars, pttVars, pbVars, inVars, statVars, capVars, raceVars, playVars, streamVars, lockVars, stopVars>>

\* PlaybackController.stop() up to the join
ControllerStopSignal ==
    /\ ctl_pc = "idle"
    /\ IF ctl_is_active
       THEN /\ ctl_should_stop' = TRUE
            /\ player_should_stop' = (player_should_stop \/ stop_sets_flag)
            /\ ctl_pc' = "join"
       ELSE UNCHANGED <<ctl_should_stop, player_should_stop, ctl_pc>>
    /\ UNCHANGED <<ctl_is_active, ctl_thread, worker_pc>>
    /\ UNCHANGED <<queue, wk_pc, wk_item, player_is_playing, rendering, int_pc, resp_pc,
                   resp_text, n_queued, handed, interrupts, int_snapshot, int_result>>
    /\ UNCHANGED <<sessVars, apiVars, fbVars, pttVars, inVars, statVars, capVars, raceVars, playVars, streamVars, lockVars, stopVars>>

\* PlaybackController.stop(): join(timeout=2.0) returns because the thread has
\* ended, or because two seconds have passed while it is blocked in play
ControllerStopJoin(timed_out) ==
    /\ ctl_pc = "join"
    /\ IF timed_out THEN worker_pc[ctl_thread] = "play" ELSE ~Alive(ctl_thread)
    /\ ctl_is_active' = FALSE
    /\ ctl_pc' = "idle"
    /\ UNCHANGED <<ctl_should_stop, ctl_thread, worker_pc>>
    /\ UNCHANGED <<sessVars, apiVars, fbVars, pttVars, pbVars, inVars, statVars, capVars, raceVars, playVars, streamVars, lockVars, stopVars>>

\* _controller_loop: while not self._should_stop
WorkerLoopTest(w) ==
    /\ worker_pc[w] = "while"
    /\ worker_pc' = [worker_pc EXCEPT ![w] = IF loop_continues(w) THEN "take"
                                             ELSE "exited"]
    /\ UNCHANGED <<ctl_is_active, ctl_should_stop, ctl_thread, ctl_pc>>
    /\ UNCHANGED <<sessVars, apiVars, fbVars, pttVars, pbVars, inVars, statVars, capVars, raceVars, playVars, streamVars, lockVars, stopVars>>

\* _controller_loop: pop the head of the queue under the lock and call
\* player.play; or find the queue empty and sleep
WorkerTake(w) ==
    /\ worker_pc[w] = "take"
    /\ IF queue = <<>>
       THEN /\ worker_pc' = [worker_pc EXCEPT ![w] = "while"]
            /\ UNCHANGED <<queue, handed>>
       ELSE /\ queue' = pop_head(queue).rest
            /\ handed' = Append(handed, pop_head(queue).item)
            /\ worker_pc' = [worker_pc EXCEPT ![w] = "check"]
    /\ UNCHANGED <<ctl_is_active, ctl_should_stop, ctl_thread, ctl_pc>>
    /\ UNCHANGED <<wk_pc, wk_item, player_is_playing, player_should_stop, rendering,
                   int_pc, resp_pc, resp_text, n_queued, interrupts, int_snapshot,
                   int_result>>
    /\ UNCHANGED sessVars
    /\ UNCHANGED <<apiVars, fbVars, pttVars, inVars, statVars, capVars, raceVars, playVars, streamVars, lockVars, stopVars>>

\* AudioPlayer.play: the busy test, made before the buffer is decoded and
\* without the player's lock; a busy player raises PlaybackError, which the
\* worker catches and prints
play_raises_already_playing == player_is_playing

WorkerPlayCheck(w) ==
    /\ worker_pc[w] = "check"
    /\ worker_pc' = [worker_pc EXCEPT ![w] = IF play_raises_already_playing
                                             THEN "while" ELSE "begin"]
    /\ UNCHANGED <<ctl_is_active, ctl_should_stop, ctl_thread, ctl_pc>>
    /\ UNCHANGED <<sessVars, apiVars, fbVars, pttVars, pbVars, inVars, statVars, capVars, raceVars, playVars, streamVars, lockVars, stopVars>>

\* _play_array: mark the player busy under its lock, run the playback-start
\* hook and block in the device
WorkerPlayBegin(w) ==
    /\ worker_pc[w] = "begin"
    /\ worker_pc' = [worker_pc EXCEPT ![w] = "play"]
    /\ player_is_playing' = TRUE
    /\ player_should_stop' = FALSE
    /\ is_playing' = IF set_playing_raises(TRUE) THEN is_playing ELSE TRUE
    /\ UNCHANGED <<ctl_is_active, ctl_should_stop, ctl_thread, ctl_pc>>
    /\ UNCHANGED <<queue, wk_pc, wk_item, rendering, int_pc, resp_pc, resp_text,
                   n_queued, handed, interrupts, int_snapshot, int_result>>
    /\ UNCHANGED <<is_listening, pending_responses, last_command, statistics>>
    /\ UNCHANGED <<apiVars, fbVars, pttVars, inVars, statVars, capVars, raceVars, playVars, streamVars, lockVars, stopVars>>

\* the device finishes the buffer: _play_array clears the player's flag and
\* runs the playback-stop hook, and the worker goes back to the loop test
WorkerPlayReturns(w) ==
    /\ worker_pc[w] = "play"
    /\ worker_pc' = [worker_pc EXCEPT ![w] = "while"]
    /\ player_is_playing' = FALSE
    /\ is_playing' = FALSE
    /\ pending_responses' =
           IF pending_responses # <<>> THEN Tail(pending_responses) ELSE pending_responses
    /\ UNCHANGED <<ctl_is_active, ctl_should_stop, ctl_thread, ctl_pc>>
    /\ UNCHANGED <<queue, wk_pc, wk_item, player_should_stop, rendering, int_pc, resp_pc,
                   resp_text, n_queued, handed, interrupts, int_snapshot, int_result>>
    /\ UNCHANGED <<is_listening, last_command, statistics>>
    /\ UNCHANGED <<apiVars, fbVars, pttVars, inVars, statVars, capVars, raceVars, playVars, streamVars, lockVars, stopVars>>

LifecycleNext ==
    \/ ControllerStart
    \/ ControllerStopSignal
    \/ \E timed_out \in BOOLEAN : ControllerStopJoin(timed_out)
    \/ \E w \in WorkerIds : WorkerLoopTest(w)
    \/ \E w \in WorkerIds : WorkerTake(w)
    \/ \E w \in WorkerIds : WorkerPlayCheck(w)
    \/ \E w \in WorkerIds : WorkerPlayBegin(w)
    \/ \E w \in WorkerIds : WorkerPlayReturns(w)
    \/ Producing({"speak"})

SpecLifecycle == Init /\ [][LifecycleNext]_vars

(***************************************************************************)
(* Statistics updated by several threads at once (SpecStatsRace).  Each    *)
(* thread runs one update, one statement per step; an augmented            *)
(* assignment is a load followed by a store.  No statement of the class    *)
(* takes a lock.                                                           *)
(***************************************************************************)
\* a thread calls update_transcription_time or update_playback_start_time
BeginUpdate(t, kind, duration_ms) ==
    /\ updaters[t].pc = "idle"
    /\ updaters' = [updaters EXCEPT ![t] =
           [UpdaterIdle EXCEPT !.pc = IF kind = "transcription" THEN "tr_total"
                                      ELSE "pb_count",
                               !.kind = kind, !.duration_ms = duration_ms]]
    /\ UNCHANGED <<sessVars, apiVars, fbVars, pttVars, pbVars, inVars, statVars,
                   capVars, lcVars, playVars, streamVars, lockVars, stopVars>>

\* total = self.average_transcription_time_ms * self.commands_issued_count
TranscriptionTotal(t) ==
    /\ updaters[t].pc = "tr_total"
    /\ updaters' = [updaters EXCEPT ![t].pc = "tr_load",
                                    ![t].total =
                                        RatTimesInt(statistics.average_transcription_time_ms,
                                                    statistics.commands_issued_count)]
    /\ UNCHANGED <<sessVars, apiVars, fbVars, pttVars, pbVars, inVars, statVars,
                   capVars, lcVars, playVars, streamVars, lockVars, stopVars>>

\* self.commands_issued_count += 1: the load
TranscriptionCountLoad(t) ==
    /\ updaters[t].pc = "tr_load"
    /\ updaters' = [updaters EXCEPT ![t].pc = "tr_store",
                                    ![t].count = statistics.commands_issued_count]
    /\ UNCHANGED <<sessVars, apiVars, fbVars, pttVars, pbVars, inVars, statVars,
                   capVars, lcVars, playVars, streamVars, lockVars, stopVars>>

\* self.commands_issued_count += 1: the store
TranscriptionCountStore(t) ==
    /\ updaters[t].pc = "tr_store"
    /\ statistics' = [statistics EXCEPT !.commands_issued_count = updaters[t].count + 1]
    /\ updaters' = [updaters EXCEPT ![t].pc = "tr_average"]
    /\ UNCHANGED <<is_listening, is_playing, pending_responses, last_command>>
    /\ UNCHANGED <<apiVars, fbVars, pttVars, pbVars, inVars, statVars, capVars, lcVars, playVars, streamVars, lockVars, stopVars>>

\* self.average_transcription_time_ms =
\*     (total + duration_ms) / self.commands_issued_count
TranscriptionAverage(t) ==
    /\ updaters[t].pc = "tr_average"
    /\ statistics' = [statistics EXCEPT !.average_transcription_time_ms =
           RatOverInt(RatPlusInt(updaters[t].total, updaters[t].duration_ms),
                      statistics.commands_issued_count)]
    /\ updaters' = [updaters EXCEPT ![t].pc = "done"]
    /\ UNCHANGED <<is_listening, is_playing, pending_responses, last_command>>
    /\ UNCHANGED <<apiVars, fbVars, pttVars, pbVars, inVars, statVars, capVars, lcVars, playVars, streamVars, lockVars, stopVars>>

\* count = max(1, self.commands_issued_count)
PlaybackStartCount(t) ==
    /\ updaters[t].pc = "pb_count"
    /\ updaters' = [updaters EXCEPT ![t].pc = "pb_total",
                                    ![t].count = IF statistics.commands_issued_count > 1
                                                 THEN statistics.commands_issued_count
                                                 ELSE 1]
    /\ UNCHANGED <<sessVars, apiVars, fbVars, pttVars, pbVars, inVars, statVars,
                   capVars, lcVars, playVars, streamVars, lockVars, stopVars>>

\* total = self.average_playback_start_time_ms * (count - 1)
PlaybackStartTotal(t) ==
    /\ updaters[t].pc = "pb_total"
    /\ updaters' = [updaters EXCEPT ![t].pc = "pb_average",
                                    ![t].total =
                                        RatTimesInt(statistics.average_playback_start_time_ms,
                                                    updaters[t].count - 1)]
    /\ UNCHANGED <<sessVars, apiVars, fbVars, pttVars, pbVars, inVars, statVars,
                   capVars, lcVars, playVars, streamVars, lockVars, stopVars>>

\* self.average_playback_start_time_ms = (total + duration_ms) / count
PlaybackStartAverage(t) ==
    /\ updaters[t].pc = "pb_average"
    /\ statistics' = [statistics EXCEPT !.average_playback_start_time_ms =
           RatOverInt(RatPlusInt(updaters[t].total, updaters[t].duration_ms),
                      updaters[t].count)]
    /\ updaters' = [updaters EXCEPT ![t].pc = "done"]
    /\ UNCHANGED <<is_listening, is_playing, pending_responses, last_command>>
    /\ UNCHANGED <<apiVars, fbVars, pttVars, pbVars, inVars, statVars, capVars, lcVars, playVars, streamVars, lockVars, stopVars>>

StatsRaceNext ==
    \/ \E t \in UpdaterIds, kind \in UpdateKinds, d \in Durations : BeginUpdate(t, kind, d)
    \/ \E t \in UpdaterIds : TranscriptionTotal(t)
    \/ \E t \in UpdaterIds : TranscriptionCountLoad(t)
    \/ \E t \in UpdaterIds : TranscriptionCountStore(t)
    \/ \E t \in UpdaterIds : TranscriptionAverage(t)
    \/ \E t \in UpdaterIds : PlaybackStartCount(t)
    \/ \E t \in UpdaterIds : PlaybackStartTotal(t)
    \/ \E t \in UpdaterIds : PlaybackStartAverage(t)

SpecStatsRace == Init /\ [][StatsRaceNext]_vars

(***************************************************************************)
(* AudioPlayer.play called by several threads (SpecPlayer), one statement  *)
(* per step.  The hooks are those the output manager installs.             *)
(***************************************************************************)
\* a thread calls player.play(audio_data, audio_format)
PlayCall(c) ==
    /\ callers[c].pc = "idle"
    /\ callers' = [callers EXCEPT ![c] = [pc |-> "check", result |-> "none"]]
    /\ UNCHANGED <<sessVars, apiVars, fbVars, pttVars, pbVars, inVars, statVars,
                   capVars, lcVars, raceVars, streamVars, lockVars, stopVars>>

\* if self._is_playing: raise PlaybackError("Already playing audio")
PlayBusyTest(c) ==
    /\ callers[c].pc = "check"
    /\ callers' = [callers EXCEPT ![c] =
           IF play_raises_already_playing
           THEN [pc |-> "idle", result |-> "AlreadyPlaying"]
           ELSE [pc |-> "decode", result |-> "none"]]
    /\ UNCHANGED <<sessVars, apiVars, fbVars, pttVars, pbVars, inVars, statVars,
                   capVars, lcVars, raceVars, streamVars, lockVars, stopVars>>

\* format detection and _load_wav or _load_mp3, which raise PlaybackError on
\* data they cannot decode
PlayDecode(c, decodes) ==
    /\ callers[c].pc = "decode"
    /\ callers' = [callers EXCEPT ![c] =
           IF decodes THEN [pc |-> "begin", result |-> "none"]
           ELSE [pc |-> "idle", result |-> "PlaybackError"]]
    /\ UNCHANGED <<sessVars, apiVars, fbVars, pttVars, pbVars, inVars, statVars,
                   capVars, lcVars, raceVars, streamVars, lockVars, stopVars>>

\* _play_array: set _is_playing and clear _should_stop under the lock
PlayBegin(c) ==
    /\ callers[c].pc = "begin"
    /\ player_is_playing' = TRUE
    /\ player_should_stop' = FALSE
    /\ callers' = [callers EXCEPT ![c].pc = "start_hook"]
    /\ UNCHANGED <<queue, wk_pc, wk_item, rendering, int_pc, resp_pc, resp_text,
                   n_queued, handed, interrupts, int_snapshot, int_result>>
    /\ UNCHANGED <<sessVars, apiVars, fbVars, pttVars, inVars, statVars, capVars,
                   lcVars, raceVars, streamVars, lockVars, stopVars>>

\* _play_array: on_playback_start(), then sd.play hands the buffer to the
\* device
PlayStartHook(c) ==
    /\ callers[c].pc = "start_hook"
    /\ is_playing' = IF set_playing_raises(TRUE) THEN is_playing ELSE TRUE
    /\ callers' = [callers EXCEPT ![c].pc = "device"]
    /\ UNCHANGED <<is_listening, pending_responses, last_command, statistics>>
    /\ UNCHANGED <<apiVars, fbVars, pttVars, pbVars, inVars, statVars, capVars,
                   lcVars, raceVars, streamVars, lockVars, stopVars>>

\* _play_array: sd.wait() returns
PlayDeviceDone(c) ==
    /\ callers[c].pc = "device"
    /\ callers' = [callers EXCEPT ![c].pc = "finally"]
    /\ UNCHANGED <<sessVars, apiVars, fbVars, pttVars, pbVars, inVars, statVars,
                   capVars, lcVars, raceVars, streamVars, lockVars, stopVars>>

\* _play_array: the finally clause clears _is_playing under the lock
PlayClearFlag(c) ==
    /\ callers[c].pc = "finally"
    /\ player_is_playing' = FALSE
    /\ callers' = [callers EXCEPT ![c].pc = "stop_hook"]
    /\ UNCHANGED <<queue, wk_pc, wk_item, player_should_stop, rendering, int_pc,
                   resp_pc, resp_text, n_queued, handed, interrupts, int_snapshot,
                   int_result>>
    /\ UNCHANGED <<sessVars, apiVars, fbVars, pttVars, inVars, statVars, capVars,
                   lcVars, raceVars, streamVars, lockVars, stopVars>>

\* _play_array: on_playback_stop(), and play returns
PlayStopHook(c) ==
    /\ callers[c].pc = "stop_hook"
    /\ is_playing' = FALSE
    /\ pending_responses' = dequeue_response(pending_responses).rest
    /\ callers' = [callers EXCEPT ![c] = [pc |-> "idle", result |-> "returned"]]
    /\ UNCHANGED <<is_listening, last_command, statistics>>
    /\ UNCHANGED <<apiVars, fbVars, pttVars, pbVars, inVars, statVars, capVars,
                   lcVars, raceVars, streamVars, lockVars, stopVars>>

PlayerNext ==
    \/ \E c \in CallerIds : PlayCall(c)
    \/ \E c \in CallerIds : PlayBusyTest(c)
    \/ \E c \in CallerIds, decodes \in BOOLEAN : PlayDecode(c, decodes)
    \/ \E c \in CallerIds : PlayBegin(c)
    \/ \E c \in CallerIds : PlayStartHook(c)
    \/ \E c \in CallerIds : PlayDeviceDone(c)
    \/ \E c \in CallerIds : PlayClearFlag(c)
    \/ \E c \in CallerIds : PlayStopHook(c)

SpecPlayer == Init /\ [][PlayerNext]_vars

(***************************************************************************)
(* AudioPlayer._detect_format and the format dispatch of play, called on   *)
(* an idle player with every short byte string (SpecFormat).               *)
(***************************************************************************)
MaxBytes == 4
\* the bytes R, I, F, D, 3, 0xFF, 0xFB and 0x00
FormatBytes == {82, 73, 70, 68, 51, 255, 251, 0}
RIFF == <<82, 73, 70, 70>>
ID3 == <<73, 68, 51>>
MPEG_SYNC == <<255, 251>>
ByteStrings == UNION {[1..n -> FormatBytes] : n \in 0..MaxBytes}
FormatTags == {"wav", "mp3", "auto", "ogg"}

\* bytes.startswith
startswith(data, prefix) ==
    /\ Len(data) >= Len(prefix)
    /\ SubSeq(data, 1, Len(prefix)) = prefix

detect_format_by_first_byte(audio_data) ==
    IF audio_data # <<>> /\ audio_data[1] \in {73, 255} THEN "mp3" ELSE "wav"
detect_format(audio_data) ==
    IF startswith(audio_data, RIFF) THEN "wav"
    ELSE IF startswith(audio_data, ID3) \/ startswith(audio_data, MPEG_SYNC) THEN "mp3"
    ELSE "wav"

\* play on an idle player up to the call of _play_array: the format it
\* decodes with, or the error it raises
play_dispatch(audio_data, audio_format, decodes) ==
    LET format == IF audio_format = "auto" THEN detect_format(audio_data)
                  ELSE audio_format
    IN  IF format \notin {"wav", "mp3"}
        THEN [format |-> format, raised |-> "Unsupported audio format"]
        ELSE IF ~decodes
        THEN [format |-> format, raised |-> "Failed to load audio"]
        ELSE [format |-> format, raised |-> None]

\* each behaviour makes one call, on a newly constructed player
DetectFormat(audio_data) ==
    /\ call.op = "construct"
    /\ call' = [op |-> "detect_format", arg |-> audio_data, tag |-> "auto",
                format |-> detect_format(audio_data), raised |-> None]
    /\ UNCHANGED <<sessVars, fbVars, pttVars, pbVars, inVars, statVars, capVars,
                   lcVars, raceVars, playVars, streamVars, lockVars, stopVars>>

PlayFormat(audio_data, audio_format, decodes) ==
    /\ call.op = "construct"
    /\ ~player_is_playing
    /\ LET r == play_dispatch(audio_data, audio_format, decodes)
       IN  call' = [op |-> "play", arg |-> audio_data, tag |-> audio_format,
                    format |-> r.format, raised |-> r.raised]
    /\ UNCHANGED <<sessVars, fbVars, pttVars, pbVars, inVars, statVars, capVars,
                   lcVars, raceVars, playVars, streamVars, lockVars, stopVars>>

\* the test of the one call comes first, so that no input is enumerated in
\* a state where the call has been made
FormatNext ==
    \/ /\ call.op = "construct"
       /\ \E audio_data \in ByteStrings : DetectFormat(audio_data)
    \/ /\ call.op = "construct"
       /\ \E audio_data \in ByteStrings, audio_format \in FormatTags,
             decodes \in BOOLEAN : PlayFormat(audio_data, audio_format, decodes)

SpecFormat == Init /\ [][FormatNext]_vars

(***************************************************************************)
(* AudioPlayer.play_streaming and AudioPlayer.play on one thread, one      *)
(* statement per step, with AudioPlayer.stop called from another thread    *)
(* (SpecStreaming).  A chunk is an MP3 frame the decoder accepts, or       *)
(* garbage.                                                                *)
(***************************************************************************)
\* _decode_mp3_chunk: every exception of the decoder is caught and a buffer
\* of 1024 zero samples is returned
decode_mp3_chunk(kind) == IF kind = "mp3" THEN "audio" ELSE "silence"

\* play_streaming: the except clause inside the loop prints a warning and
\* continues with the next chunk
after_chunk_error_abort == "finally"
after_chunk_error == "test"

\* play_streaming: if self._should_stop: break
stream_should_break == player_should_stop

\* the busy test of play and play_streaming, then _is_playing = True and
\* _should_stop = False under the lock
StreamCall(mode, chunks) ==
    /\ streamer.pc = "idle"
    /\ streamer.calls < MaxPlays
    /\ IF play_raises_already_playing
       THEN /\ streamer' = [streamer EXCEPT !.result = "AlreadyPlaying",
                                            !.calls = @ + 1]
            /\ UNCHANGED <<player_is_playing, player_should_stop>>
       ELSE /\ streamer' = [StreamerIdle EXCEPT !.pc = "start_hook", !.mode = mode,
                                                !.chunks = chunks,
                                                !.calls = streamer.calls + 1,
                                                !.starts = streamer.starts,
                                                !.stops = streamer.stops]
            /\ player_is_playing' = TRUE
            /\ player_should_stop' = FALSE
    /\ UNCHANGED <<queue, wk_pc, wk_item, rendering, int_pc, resp_pc, resp_text,
                   n_queued, handed, interrupts, int_snapshot, int_result>>
    /\ UNCHANGED <<sessVars, apiVars, fbVars, pttVars, inVars, statVars, capVars,
                   lcVars, raceVars, playVars, lockVars, stopVars>>

\* on_playback_start(), called before the try statement: an exception of the
\* hook leaves the method at once
StreamStartHook(hook_raises) ==
    /\ streamer.pc = "start_hook"
    /\ streamer' = [streamer EXCEPT !.starts = @ + 1,
                                    !.pc = IF hook_raises THEN "idle" ELSE "open",
                                    !.result = IF hook_raises THEN "StartHookError" ELSE @]
    /\ UNCHANGED pbVars
    /\ UNCHANGED <<sessVars, apiVars, fbVars, pttVars, inVars, statVars, capVars,
                   lcVars, raceVars, playVars, lockVars, stopVars>>

\* play_streaming: sd.OutputStream(...) and start(); play: sd.play(...), which
\* hands the whole buffer to the device.  A device error becomes
\* PlaybackError after the finally clause
StreamOpen(opens) ==
    /\ streamer.pc = "open"
    /\ streamer' =
           IF ~opens
           THEN [streamer EXCEPT !.pc = "finally", !.result = "PlaybackError"]
           ELSE IF streamer.mode = "play"
           THEN [streamer EXCEPT !.pc = "wait", !.opened = TRUE,
                                 !.written = <<[chunk |-> 1, audio |-> "audio"]>>]
           ELSE [streamer EXCEPT !.pc = "test", !.opened = TRUE, !.i = 1]
    /\ UNCHANGED pbVars
    /\ UNCHANGED <<sessVars, apiVars, fbVars, pttVars, inVars, statVars, capVars,
                   lcVars, raceVars, playVars, lockVars, stopVars>>

\* play: sd.wait() returns when the device has finished the buffer
StreamWait ==
    /\ streamer.pc = "wait"
    /\ streamer' = [streamer EXCEPT !.pc = "finally"]
    /\ UNCHANGED pbVars
    /\ UNCHANGED <<sessVars, apiVars, fbVars, pttVars, inVars, statVars, capVars,
                   lcVars, raceVars, playVars, lockVars, stopVars>>

\* play_streaming: the for statement takes the next chunk, or ends; then the
\* test of the flag
StreamTest ==
    /\ streamer.pc = "test"
    /\ streamer' = [streamer EXCEPT !.pc = IF streamer.i > Len(streamer.chunks)
                                              \/ stream_should_break
                                           THEN "finally" ELSE "decode"]
    /\ UNCHANGED pbVars
    /\ UNCHANGED <<sessVars, apiVars, fbVars, pttVars, inVars, statVars, capVars,
                   lcVars, raceVars, playVars, lockVars, stopVars>>

\* play_streaming: audio_array = self._decode_mp3_chunk(chunk)
StreamDecode ==
    /\ streamer.pc = "decode"
    /\ streamer' = [streamer EXCEPT !.pc = "write",
                                    !.audio = decode_mp3_chunk(streamer.chunks[streamer.i]),
                                    !.attempted = Append(@, streamer.i)]
    /\ UNCHANGED pbVars
    /\ UNCHANGED <<sessVars, apiVars, fbVars, pttVars, inVars, statVars, capVars,
                   lcVars, raceVars, playVars, lockVars, stopVars>>

\* play_streaming: self._stream.write(audio_array); an exception is caught
\* inside the loop
StreamWrite(write_raises) ==
    /\ streamer.pc = "write"
    /\ streamer' =
           IF write_raises
           THEN [streamer EXCEPT !.pc = after_chunk_error, !.i = @ + 1, !.audio = None,
                                 !.result = IF after_chunk_error = "test" THEN @
                                            ELSE "PlaybackError"]
           ELSE [streamer EXCEPT !.pc = "test", !.i = @ + 1, !.audio = None,
                                 !.written = Append(@, [chunk |-> streamer.i,
                                                        audio |-> streamer.audio])]
    /\ UNCHANGED pbVars
    /\ UNCHANGED <<sessVars, apiVars, fbVars, pttVars, inVars, statVars, capVars,
                   lcVars, raceVars, playVars, lockVars, stopVars>>

\* the finally clause: the stream is stopped and closed and _is_playing is
\* cleared under the lock
StreamFinally ==
    /\ streamer.pc = "finally"
    /\ player_is_playing' = FALSE
    /\ streamer' = [streamer EXCEPT !.pc = "stop_hook"]
    /\ UNCHANGED player_should_stop
    /\ UNCHANGED <<queue, wk_pc, wk_item, rendering, int_pc, resp_pc, resp_text,
                   n_queued, handed, interrupts, int_snapshot, int_result>>
    /\ UNCHANGED <<sessVars, apiVars, fbVars, pttVars, inVars, statVars, capVars,
                   lcVars, raceVars, playVars, lockVars, stopVars>>

\* the finally clause: on_playback_stop(), and the call returns or raises
StreamStopHook(hook_raises) ==
    /\ streamer.pc = "stop_hook"
    /\ streamer' = [streamer EXCEPT !.stops = @ + 1, !.stop_hooks = @ + 1,
                                    !.pc = "idle",
                                    !.result = IF hook_raises THEN "StopHookError"
                                               ELSE IF @ = "none" THEN "returned"
                                               ELSE @]
    /\ UNCHANGED pbVars
    /\ UNCHANGED <<sessVars, apiVars, fbVars, pttVars, inVars, statVars, capVars,
                   lcVars, raceVars, playVars, lockVars, stopVars>>

\* AudioPlayer.stop() on another thread: under the lock, return if nothing is
\* playing, else set _should_stop
StreamStop ==
    /\ IF ~stop_sets_flag
       THEN UNCHANGED <<player_should_stop, streamer>>
       ELSE /\ player_should_stop' = TRUE
            /\ streamer' =
                   IF streamer.limit # -1 \/ streamer.pc = "idle" THEN streamer
                   ELSE [streamer EXCEPT !.limit =
                            Len(streamer.written)
                                + (IF streamer.pc \in {"decode", "write"} THEN 1 ELSE 0)]
    /\ UNCHANGED player_is_playing
    /\ UNCHANGED <<queue, wk_pc, wk_item, rendering, int_pc, resp_pc, resp_text,
                   n_queued, handed, interrupts, int_snapshot, int_result>>
    /\ UNCHANGED <<sessVars, apiVars, fbVars, pttVars, inVars, statVars, capVars,
                   lcVars, raceVars, playVars, lockVars, stopVars>>

StreamingNext ==
    \/ \E mode \in {"play", "streaming"}, chunks \in ChunkSequences :
            StreamCall(mode, IF mode = "play" THEN <<>> ELSE chunks)
    \/ \E hook_raises \in BOOLEAN : StreamStartHook(hook_raises)
    \/ \E opens \in BOOLEAN : StreamOpen(opens)
    \/ StreamWait
    \/ StreamTest
    \/ StreamDecode
    \/ \E write_raises \in BOOLEAN : StreamWrite(write_raises)
    \/ StreamFinally
    \/ \E hook_raises \in BOOLEAN : StreamStopHook(hook_raises)
    \/ StreamStop

SpecStreaming == Init /\ [][StreamingNext]_vars

(***************************************************************************)
(* AudioCapture's lock: start_recording and stop_recording statement by    *)
(* statement on the caller's thread, next to _audio_callback on the        *)
(* device's thread (SpecCaptureLock).                                      *)
(***************************************************************************)
notCaptureLock == <<sessVars, apiVars, fbVars, pbVars, inVars, statVars, lcVars,
                    raceVars, playVars, streamVars, stopVars, ctrl_pressed,
                    space_pressed, stt_available, commands, keys_down, handled>>

\* _audio_callback has no "with self._lock": it reads the flag and appends to
\* the buffer without the lock
callback_takes_lock_always == TRUE
callback_takes_lock == FALSE

\* start_recording: with self._lock
LockStartAcquire ==
    /\ lk.pc = "idle"
    /\ lk.owner = "none"
    /\ lk' = [lk EXCEPT !.owner = "caller", !.pc = "start_body"]
    /\ UNCHANGED <<is_recording, audio_buffer, stream, delivered>>
    /\ UNCHANGED notCaptureLock

\* start_recording: the body; leaving the with statement, by return or by an
\* exception of the stream, releases the lock
LockStartBody(stream_opens) ==
    /\ lk.pc = "start_body"
    /\ start_recording(stream_opens)
    /\ delivered' = IF start_returns_early THEN delivered ELSE <<>>
    /\ lk' = [lk EXCEPT !.owner = "none", !.pc = "idle"]
    /\ UNCHANGED notCaptureLock

\* stop_recording: with self._lock
LockStopAcquire ==
    /\ lk.pc = "idle"
    /\ lk.owner = "none"
    /\ lk' = [lk EXCEPT !.owner = "caller", !.pc = "stop_test"]
    /\ UNCHANGED <<is_recording, audio_buffer, stream, delivered>>
    /\ UNCHANGED notCaptureLock

\* stop_recording: the early return, else the flag is cleared
LockStopTest ==
    /\ lk.pc = "stop_test"
    /\ IF stop_returns_early
       THEN /\ lk' = [lk EXCEPT !.owner = "none", !.pc = "idle"]
            /\ UNCHANGED is_recording
       ELSE /\ is_recording' = FALSE
            /\ lk' = [lk EXCEPT !.pc = IF stream # None THEN "stream_stop"
                                       ELSE "deliver"]
    /\ UNCHANGED <<audio_buffer, stream, delivered>>
    /\ UNCHANGED notCaptureLock

\* stop_recording: self._stream.stop() and close(), which return once the
\* callback that is in progress has returned
LockStreamStop ==
    /\ lk.pc = "stream_stop"
    /\ lk.cb = "idle"
    /\ stream' = None
    /\ lk' = [lk EXCEPT !.pc = "deliver"]
    /\ UNCHANGED <<is_recording, audio_buffer, delivered>>
    /\ UNCHANGED notCaptureLock

\* stop_recording: the buffer is concatenated and handed to on_recording_stop,
\* the method returns and the lock is released
LockStopDeliver ==
    /\ lk.pc = "deliver"
    /\ lk' = [lk EXCEPT !.owner = "none", !.pc = "idle"]
    /\ UNCHANGED <<is_recording, audio_buffer, stream, delivered>>
    /\ UNCHANGED notCaptureLock

\* the device thread enters _audio_callback with a block of samples
CallbackEnter(chunk) ==
    /\ stream = "open"
    /\ lk.cb = "idle"
    /\ Len(delivered) < MaxChunks
    /\ lk' = [lk EXCEPT !.cb = "test", !.chunk = chunk]
    /\ delivered' = Append(delivered, chunk)
    /\ UNCHANGED <<is_recording, audio_buffer, stream>>
    /\ UNCHANGED notCaptureLock

\* _audio_callback: if self._is_recording: self._audio_buffer.append(...), and
\* the callback returns
CallbackAppend ==
    /\ lk.cb = "test"
    /\ callback_takes_lock => lk.owner = "none"
    /\ audio_buffer' = IF is_recording THEN Append(audio_buffer, lk.chunk)
                       ELSE audio_buffer
    /\ lk' = [lk EXCEPT !.cb = "idle", !.chunk = 0]
    /\ UNCHANGED <<is_recording, stream, delivered>>
    /\ UNCHANGED notCaptureLock

CaptureLockNext ==
    \/ LockStartAcquire
    \/ \E stream_opens \in BOOLEAN : LockStartBody(stream_opens)
    \/ LockStopAcquire
    \/ LockStopTest
    \/ LockStreamStop
    \/ LockStopDeliver
    \/ \E chunk \in BlockSizes : CallbackEnter(chunk)
    \/ CallbackAppend

SpecCaptureLock == Init /\ [][CaptureLockNext]_vars

\* both threads keep being scheduled: a statement that can run does run
SpecCaptureLockFair ==
    /\ SpecCaptureLock
    /\ WF_vars(CallbackAppend)
    /\ WF_vars(LockStopTest)
    /\ WF_vars(LockStreamStop)
    /\ WF_vars(LockStopDeliver)

(***************************************************************************)
(* InputOrchestrator.start and stop on the main thread, next to the key    *)
(* listener's thread, which runs _on_key_press, _on_key_release and, from  *)
(* inside stop_recording, _on_audio_captured (SpecStop).                   *)
(***************************************************************************)
MaxStarts == 2

notStop == <<apiVars, fbVars, pbVars, statVars, capVars, lcVars, raceVars, playVars,
             streamVars, lockVars, ctrl_pressed, space_pressed, stt_available,
             keys_down, handled>>

\* InputOrchestrator.start with voice input enabled: the early return when
\* active, else PushToTalkHandler.start creates and starts the key listener
ManagerStart ==
    /\ mgr.pc = "idle"
    /\ ~mgr.is_active
    /\ mgr.starts < MaxStarts
    /\ mgr' = [mgr EXCEPT !.is_active = TRUE, !.ptt_is_active = TRUE,
                          !.listener = IF mgr.ptt_is_active THEN @ ELSE "running",
                          !.starts = @ + 1]
    /\ UNCHANGED <<is_recording, audio_buffer, stream, in_pc, in_clip, n_captures,
                   commands, sessVars>>
    /\ UNCHANGED notStop

\* _on_key_press on the listener's thread when the chord becomes complete
ChordPressed(stream_opens) ==
    /\ mgr.listener = "running"
    /\ in_pc = "idle"
    /\ mgr.pc \notin {"handling"}
    /\ n_captures < MaxCaptures
    /\ ~is_recording
    /\ start_recording(stream_opens)
    /\ UNCHANGED <<mgr, in_pc, in_clip, n_captures, commands, sessVars>>
    /\ UNCHANGED notStop

\* _audio_callback while the chord is held
DeviceChunk(chunk) ==
    /\ stream = "open"
    /\ is_recording
    /\ Len(audio_buffer) < MaxChunks
    /\ audio_buffer' = Append(audio_buffer, chunk)
    /\ UNCHANGED <<mgr, is_recording, stream, in_pc, in_clip, n_captures, commands,
                   sessVars>>
    /\ UNCHANGED notStop

\* _on_key_release on the listener's thread when the chord is broken:
\* stop_recording clears the flag, closes the stream and, for a non-empty
\* buffer, calls on_recording_stop, which enters _on_audio_captured on this
\* thread with the capture lock held
ChordReleased ==
    /\ mgr.listener = "running"
    /\ in_pc = "idle"
    /\ is_recording
    /\ is_recording' = FALSE
    /\ stream' = None
    /\ IF audio_buffer = <<>>
       THEN UNCHANGED <<in_pc, in_clip, n_captures>>
       ELSE /\ in_pc' = "set_listening"
            /\ in_clip' = SumSeq(audio_buffer)
            /\ n_captures' = n_captures + 1
    /\ UNCHANGED <<mgr, audio_buffer, commands, sessVars>>
    /\ UNCHANGED notStop

\* InputOrchestrator.stop when active, up to PushToTalkHandler.stop's
\* self._keyboard_listener.stop(), which does not wait for a callback that
\* the listener's thread is running
ManagerStop ==
    /\ mgr.pc = "idle"
    /\ mgr.is_active
    /\ mgr' = [mgr EXCEPT !.listener = None, !.pc = "recording_test"]
    /\ UNCHANGED <<is_recording, audio_buffer, stream, in_pc, in_clip, n_captures,
                   commands, sessVars>>
    /\ UNCHANGED notStop

\* PushToTalkHandler.stop: if self.audio_capture.is_recording, read without
\* the capture lock
StopRecordingTest ==
    /\ mgr.pc = "recording_test"
    /\ mgr' = [mgr EXCEPT !.pc = IF is_recording THEN "stop_recording" ELSE "clear"]
    /\ UNCHANGED <<is_recording, audio_buffer, stream, in_pc, in_clip, n_captures,
                   commands, sessVars>>
    /\ UNCHANGED notStop

\* PushToTalkHandler.stop: self.audio_capture.stop_recording() on the main
\* thread, once the capture lock is free; a non-empty buffer is handed to
\* _on_audio_captured on this thread
StopStopRecording ==
    /\ mgr.pc = "stop_recording"
    /\ in_pc = "idle"
    /\ IF stop_returns_early
       THEN /\ mgr' = [mgr EXCEPT !.pc = "clear"]
            /\ UNCHANGED <<is_recording, stream, in_pc, in_clip, n_captures>>
       ELSE /\ is_recording' = FALSE
            /\ stream' = None
            /\ IF audio_buffer = <<>>
               THEN /\ mgr' = [mgr EXCEPT !.pc = "clear"]
                    /\ UNCHANGED <<in_pc, in_clip, n_captures>>
               ELSE /\ mgr' = [mgr EXCEPT !.pc = "handling"]
                    /\ in_pc' = "set_listening"
                    /\ in_clip' = SumSeq(audio_buffer)
                    /\ n_captures' = n_captures + 1
    /\ UNCHANGED <<audio_buffer, commands, sessVars>>
    /\ UNCHANGED notStop

\* stop_recording returns to PushToTalkHandler.stop when the handler it
\* called has returned
StopHandlerReturned ==
    /\ mgr.pc = "handling"
    /\ in_pc = "idle"
    /\ mgr' = [mgr EXCEPT !.pc = "clear"]
    /\ UNCHANGED <<is_recording, audio_buffer, stream, in_pc, in_clip, n_captures,
                   commands, sessVars>>
    /\ UNCHANGED notStop

\* PushToTalkHandler.stop: self._is_active = False, then
\* InputOrchestrator.stop: self._is_active = False, and stop() returns
StopClear ==
    /\ mgr.pc = "clear"
    /\ mgr' = [mgr EXCEPT !.ptt_is_active = FALSE, !.is_active = FALSE,
                          !.pc = "idle", !.stops = @ + 1]
    /\ UNCHANGED <<is_recording, audio_buffer, stream, in_pc, in_clip, n_captures,
                   commands, sessVars>>
    /\ UNCHANGED notStop

StopNext ==
    \/ ManagerStart
    \/ \E stream_opens \in BOOLEAN : ChordPressed(stream_opens)
    \/ \E chunk \in ClipSizes : DeviceChunk(chunk)
    \/ ChordReleased
    \/ HandlingStep
    \/ ManagerStop
    \/ StopRecordingTest
    \/ StopStopRecording
    \/ StopHandlerReturned
    \/ StopClear

SpecStop == Init /\ [][StopNext]_vars

(***************************************************************************)
(* C1: from a newly constructed session, after any sequence of             *)
(* set_listening / set_playing calls (rejected ones included),             *)
(* is_listening and is_playing are never both true; and constructing a     *)
(* session with both flags true is rejected with an error.                 *)
(***************************************************************************)
C1_MutualExclusion ==
    /\ ~(is_listening /\ is_playing)
    /\ (call.op = "construct" /\ call.arg = <<TRUE, TRUE>>) => call.raised

\* a transition into Playing was rejected while the session was Listening
C1_Witness ==
    /\ call.op = "set_playing" /\ call.arg = TRUE /\ call.raised
    /\ is_listening /\ ~is_playing

(***************************************************************************)
(* C2: set_listening(true) while is_playing raises and leaves is_listening *)
(* false and every other session field unchanged; symmetrically for        *)
(* set_playing(true) while is_listening.                                   *)
(***************************************************************************)
C2_RejectedLeavesSessionUnchanged ==
    [][ /\ (call'.op = "set_listening" /\ call'.arg = TRUE /\ is_playing)
            => (call'.raised /\ ~is_listening' /\ UNCHANGED sessVars)
        /\ (call'.op = "set_playing" /\ call'.arg = TRUE /\ is_listening)
            => (call'.raised /\ ~is_playing' /\ UNCHANGED sessVars) ]_vars

\* set_listening(true) was rejected on a session that holds responses,
\* a last command and statistics
C2_Witness ==
    /\ call.op = "set_listening" /\ call.arg = TRUE /\ call.raised
    /\ is_playing /\ ~is_listening
    /\ pending_responses # <<>> /\ last_command # Nothing
    /\ statistics.commands_issued_count > 0

(***************************************************************************)
(* C4: for all sequences of key-down and key-up events on the chord keys,  *)
(* after each event has been handled capture is active if and only if all  *)
(* chord keys are currently down and the session is not Playing.           *)
(***************************************************************************)
ChordDown == (keys_down \cap CtrlKeys # {}) /\ "space" \in keys_down

C4_CaptureIffChordAndNotPlaying ==
    [][ keys_down' # keys_down
            => (is_recording' <=> (ChordDown' /\ ~is_playing')) ]_vars

(***************************************************************************)
(* C7: with the provider order [A, B], A failing with a Network error and  *)
(* B succeeding, transcribe and synthesize return B's result tagged with   *)
(* provider B, the elapsed time covers the whole attempt (so it is at      *)
(* least the time spent failing in A), and A is attempted exactly once.    *)
(***************************************************************************)
C7_FallbackToSecond ==
    (/\ fb_call.svc \in {"stt", "tts"}
     /\ fb_call.svc = "tts" => fb_call.text # EmptyText
     /\ Len(fb_call.providers) = 2
     /\ fb_call.out[fb_call.providers[1]] = "network"
     /\ fb_call.out[fb_call.providers[2]] = "ok")
    => LET A == fb_call.providers[1]
           B == fb_call.providers[2]
           r == fb_call.result
       IN  /\ r.status = "ok"
           /\ r.provider = B
           /\ r.value = IF fb_call.svc = "stt" THEN fb_call.txt[B]
                        ELSE Audio(B, fb_call.text)
           /\ r.duration_ms = fb_call.dur[A] + fb_call.dur[B]
           /\ r.duration_ms >= fb_call.dur[A]
           /\ r.attempts = <<A, B>>

\* a transcription that fell back from a slow failing first provider
C7_Witness ==
    /\ fb_call.svc = "stt"
    /\ fb_call.providers = <<WEB_SPEECH_API, WHISPER_API>>
    /\ fb_call.out[WEB_SPEECH_API] = "network" /\ fb_call.out[WHISPER_API] = "ok"
    /\ fb_call.dur[WEB_SPEECH_API] = 700
    /\ fb_call.result.status = "ok" /\ fb_call.result.provider = WHISPER_API

(***************************************************************************)
(* C8: UnclearAudio from a provider ends transcribe at once: the error     *)
(* propagates and no later provider is invoked; in particular when it is   *)
(* the first provider tried.                                               *)
(***************************************************************************)
C8_UnclearAudioIsTerminal ==
    fb_call.svc = "stt" =>
        \A i \in 1..Len(fb_call.providers) :
            (/\ fb_call.out[fb_call.providers[i]] = "unclear"
             /\ \A j \in 1..(i - 1) : fb_call.out[fb_call.providers[j]] \in Transient)
            => /\ fb_call.result.status = "unclear"
               /\ fb_call.result.attempts = SubSeq(fb_call.providers, 1, i)
               /\ fb_call.result.value = None

\* the first provider judged the audio unintelligible while a second one,
\* which would have succeeded, was available
C8_Witness ==
    /\ fb_call.svc = "stt"
    /\ fb_call.providers = <<WEB_SPEECH_API, WHISPER_API>>
    /\ fb_call.out[WEB_SPEECH_API] = "unclear" /\ fb_call.out[WHISPER_API] = "ok"
    /\ fb_call.result.status = "unclear"

(***************************************************************************)
(* C9: when every provider of the order fails with a transient error, each *)
(* provider has been attempted exactly once, in order, and the call ends   *)
(* in one aggregate failure carrying the error of the last provider        *)
(* attempted; no result is returned.                                       *)
(***************************************************************************)
C9_ExhaustionCarriesLastError ==
    (/\ fb_call.svc \in {"stt", "tts"}
     /\ fb_call.svc = "tts" => fb_call.text # EmptyText
     /\ fb_call.providers # <<>>
     /\ \A i \in 1..Len(fb_call.providers) :
            fb_call.out[fb_call.providers[i]] \in Transient)
    => LET n == Len(fb_call.providers)
           r == fb_call.result
       IN  /\ r.status = "all_failed"
           /\ r.attempts = fb_call.providers
           /\ r.value = (IF fb_call.svc = "stt" THEN None ELSE Nothing)
           /\ r.provider = None
           /\ r.last_error = [provider |-> fb_call.providers[n],
                              kind |-> fb_call.out[fb_call.providers[n]]]

\* two providers failed with different transient errors
C9_Witness ==
    /\ fb_call.svc = "stt"
    /\ Len(fb_call.providers) = 2
    /\ fb_call.out[fb_call.providers[1]] = "network"
    /\ fb_call.out[fb_call.providers[2]] = "timeout"
    /\ fb_call.result.status = "all_failed"

(***************************************************************************)
(* C3: when the listener thread runs set_listening(True) and the playback  *)
(* worker runs set_playing(True) on one shared session, at most one of the *)
(* two calls succeeds under every interleaving of their test and           *)
(* assignment, so the session is never Listening and Playing at once.      *)
(* VoiceSession holds no lock, so both tests can pass before either        *)
(* assignment (SpecShared).                                                *)
(***************************************************************************)
C3_AtMostOneCallSucceeds ==
    is_listening => ~(is_playing \/ wk_pc = "start_hook_write")

(***************************************************************************)
(* C5: when PlaybackController.interrupt returns, the queue is empty and   *)
(* the buffer that the device was rendering when interrupt was called is   *)
(* no longer rendered.  AudioPlayer.stop only sets a flag that the         *)
(* rendering never reads (SpecPlayback).                                   *)
(***************************************************************************)
C5_InterruptSilencesAndClears ==
    [][(int_pc = "clear" /\ int_pc' = "record")
         => /\ Len(queue') = 0
            /\ (int_snapshot.rendering # 0 => rendering' # int_snapshot.rendering)]_vars

(***************************************************************************)
(* C6: without an interrupt, under every interleaving of queue_audio calls *)
(* from several threads with the worker loop, the buffers handed to play,  *)
(* the one the worker has taken and the ones still queued are exactly the  *)
(* buffers appended, each once, in the order of their appends              *)
(* (SpecPlayback).                                                         *)
(***************************************************************************)
C6_StrictFifo ==
    interrupts = 0 =>
        handed \o (IF wk_pc = "play" THEN <<wk_item>> ELSE <<>>) \o queue
            = [i \in 1..n_queued |-> i]

\* two buffers were queued together and both have been handed to play
C6_Witness ==
    /\ interrupts = 0
    /\ Len(handed) = 2
    /\ n_queued > 2 => Len(queue) > 0
    /\ wk_pc = "wait"
    /\ rendering = 2

(***************************************************************************)
(* C10: whatever the outcome of handling a captured clip (too short,       *)
(* transcribed, transcription failed in any way, the command sink raised), *)
(* the session is not Listening once the handler has returned, and         *)
(* Listening always leads to not Listening (SpecSharedFair).               *)
(***************************************************************************)
C10_ListeningIsAlwaysCleared ==
    /\ [](in_pc = "idle" => ~is_listening)
    /\ (is_listening ~> ~is_listening)

\* transcription has failed and the session is still Listening, about to
\* run the finally clause
C10_Witness ==
    /\ in_pc = "finally"
    /\ is_listening
    /\ last_command = Nothing

(***************************************************************************)
(* C11: the command sink is called exactly once, with the transcribed      *)
(* text, for each clip whose transcription succeeds, and is not called for *)
(* a clip that was rejected (session Playing, clip too short) or whose     *)
(* transcription failed (SpecHandler).                                     *)
(***************************************************************************)
C11_SinkCalledOncePerTranscription ==
    [][IF call'.op = "audio_captured" /\ handled'.outcome = "ok"
       THEN /\ Len(commands') = Len(commands) + 1
            /\ SubSeq(commands', 1, Len(commands)) = commands
            /\ commands'[Len(commands')].text = handled'.text
            /\ handled'.text = last_command'.transcribed_text
       ELSE commands' = commands]_vars

\* a clip has been transcribed and the sink has received its text
C11_Witness ==
    /\ call.op = "audio_captured"
    /\ handled.outcome = "ok"
    /\ Len(commands) = 1
    /\ commands[1].text = handled.text

(***************************************************************************)
(* C12: a clip shorter than 0.5 s (twice its sample count below the sample *)
(* rate) is rejected: speech-to-text is not called, no command is emitted, *)
(* the last command and the statistics are unchanged and the session is    *)
(* not Listening afterwards; a clip of exactly 0.5 s or longer, captured   *)
(* while the session is not Playing, is transcribed (SpecHandler).         *)
(***************************************************************************)
C12_ShortClipRejected ==
    [][call'.op = "audio_captured" =>
         /\ 2 * call'.arg < SAMPLE_RATE =>
               /\ ~handled'.stt_invoked
               /\ commands' = commands
               /\ last_command' = last_command
               /\ statistics' = statistics
               /\ ~is_listening'
         /\ (2 * call'.arg >= SAMPLE_RATE /\ ~is_playing) => handled'.stt_invoked]_vars

\* a clip one sample short of 0.5 s has been rejected
C12_Witness ==
    /\ call.op = "audio_captured"
    /\ call.arg = 7999
    /\ handled.outcome = "too_short"
    /\ ~is_listening

(***************************************************************************)
(* C13: when the synthesis of a response fails (every provider failed, or  *)
(* the text is empty) the response is dropped: the playback queue, the     *)
(* pending responses and the statistics are unchanged, each provider was   *)
(* tried at most once, and while the bound on responses allows a later     *)
(* response can still be synthesized and queued.  A step that leaves the   *)
(* worker where it was is a step of _process_response (SpecResponder).     *)
(***************************************************************************)
C13_FailedSynthesisDropsResponse ==
    /\ [][(call'.op = "process_response" /\ call'.raised /\ wk_pc' = wk_pc) =>
            /\ queue' = queue
            /\ n_queued' = n_queued
            /\ pending_responses' = pending_responses
            /\ statistics' = statistics
            /\ call'.arg.attempts <= Cardinality(TtsProviders)]_vars
    /\ []((call.op = "process_response" /\ call.raised /\ n_queued < MaxItems) =>
            ENABLED (/\ \E text \in Texts, out \in TtsBehaviours(TtsAvailable),
                          dur \in [TtsProviders -> ProviderTimes] :
                            Respond(text, out, dur)
                     /\ n_queued' = n_queued + 1))

\* both providers failed for a response that followed a queued one
C13_Witness ==
    /\ call.op = "process_response"
    /\ call.raised
    /\ call.arg.text # EmptyText
    /\ call.arg.attempts = 2
    /\ n_queued = 1

(***************************************************************************)
(* C14: each call of VoiceOutputManager.interrupt on an active manager     *)
(* delegates to PlaybackController.interrupt, returns without raising and  *)
(* raises the session's interruption count by exactly one.  The call       *)
(* passes the latency to a method that takes no argument, so it raises     *)
(* TypeError and the count never moves (SpecPlayback).                     *)
(***************************************************************************)
C14_InterruptCountsOnce ==
    [][(int_pc = "record" /\ int_pc' = "idle") =>
         /\ int_result' = "returned"
         /\ statistics'.interruptions_count = statistics.interruptions_count + 1]_vars

(***************************************************************************)
(* C15: after transcription times x1..xn have been applied to fresh        *)
(* Statistics, the command count is n and the average transcription time   *)
(* is the arithmetic mean of x1..xn; 100, 200, 300 give 200 (SpecStats).   *)
(***************************************************************************)
C15_TranscriptionMean ==
    /\ statistics.commands_issued_count = Len(transcription_times)
    /\ transcription_times # <<>> =>
          statistics.average_transcription_time_ms
              = Rat(SumSeq(transcription_times), Len(transcription_times))
    /\ transcription_times = <<100, 200, 300>> =>
          statistics.average_transcription_time_ms = [num |-> 200, den |-> 1]

C15_Witness ==
    /\ transcription_times = <<100, 200, 300>>
    /\ statistics.average_transcription_time_ms = [num |-> 200, den |-> 1]
    /\ statistics.commands_issued_count = 3

(***************************************************************************)
(* C16: after playback-start latencies y1..yk have been applied, in any    *)
(* interleaving with transcription times, the average playback-start       *)
(* latency is the arithmetic mean of y1..yk.  The update divides by the    *)
(* command count, not by the number of latencies seen (SpecStats).         *)
(***************************************************************************)
C16_PlaybackStartMean ==
    playback_start_times # <<>> =>
        statistics.average_playback_start_time_ms
            = Rat(SumSeq(playback_start_times), Len(playback_start_times))

(***************************************************************************)
(* C17: stop_recording called before any start_recording, or right after   *)
(* another stop_recording, returns None without raising and leaves the     *)
(* capture inactive with no stream (SpecCapture).                          *)
(***************************************************************************)
C17_StopIsIdempotent ==
    (call.op = "stop_recording" /\ call.after \in {"construct", "stop_recording"}) =>
        /\ call.arg.returned = "none"
        /\ ~call.arg.hook
        /\ ~call.raised
        /\ ~is_recording
        /\ stream = None

\* a second stop_recording in a row, after a capture that had recorded chunks
C17_Witness ==
    /\ call.op = "stop_recording"
    /\ call.after = "stop_recording"
    /\ call.arg.returned = "none"
    /\ audio_buffer # <<>>

(***************************************************************************)
(* C18: start_recording while capture is active is a no-op: it opens no    *)
(* stream, keeps the chunks gathered so far and does not call              *)
(* on_recording_start again (SpecCapture).                                 *)
(***************************************************************************)
C18_StartIsIdempotent ==
    [][(call'.op = "start_recording" /\ is_recording) =>
         /\ ~call'.arg.opened
         /\ ~call'.arg.hook
         /\ ~call'.raised
         /\ audio_buffer' = audio_buffer
         /\ stream' = stream
         /\ is_recording']_vars

\* start_recording was called again while chunks were being gathered
C18_Witness ==
    /\ call.op = "start_recording"
    /\ call.after = "audio_callback"
    /\ is_recording
    /\ stream = "open"
    /\ audio_buffer # <<>>
    /\ ~call.arg.opened

(***************************************************************************)
(* C19: when the device delivered chunks of lengths l1..lN between a       *)
(* start_recording and the matching stop_recording, stop_recording returns *)
(* exactly those chunks in arrival order, l1+...+lN samples long, with no  *)
(* chunk of an earlier capture (SpecCapture).                              *)
(***************************************************************************)
C19_StopReturnsChunksInOrder ==
    [][(call'.op = "stop_recording" /\ is_recording /\ delivered # <<>>) =>
         /\ call'.arg.returned = "data"
         /\ call'.arg.data = delivered
         /\ call'.arg.n_samples = SumSeq(delivered)]_vars

\* a capture has returned its two chunks of different lengths
C19_Witness ==
    /\ call.op = "stop_recording"
    /\ call.arg.returned = "data"
    /\ Len(call.arg.data) = 2
    /\ call.arg.data[1] # call.arg.data[2]
    /\ call.arg.n_samples = call.arg.data[1] + call.arg.data[2]

(***************************************************************************)
(* C20: after any sequence of start() and stop() calls on one              *)
(* PlaybackController, where the join of stop() may time out while the     *)
(* worker is blocked in play, at most one worker loop is alive, and only   *)
(* the controller's current thread is inside play.  A stop() whose join    *)
(* timed out followed by start() leaves the old worker running next to the *)
(* new one (SpecLifecycle).                                                *)
(***************************************************************************)
C20_SingleWorker ==
    /\ Cardinality({w \in WorkerIds : Alive(w)}) <= 1
    /\ \A w \in WorkerIds : worker_pc[w] = "play" => ctl_thread = w

(***************************************************************************)
(* C21: the key listener's thread is never inside a speech-to-text call:   *)
(* handling a chord release returns once capture is stopped and the clip   *)
(* is handed off, so the thread stays free for the next key event.  in_pc  *)
(* is the position of the listener's thread: the release callback calls    *)
(* stop_recording, which calls the manager's handler, which calls          *)
(* transcribe, all on that thread.                                         *)
(***************************************************************************)
C21_ListenerNeverInsideStt == in_pc # "transcribe"

C23_StopDequeuesMatchingResponse ==
    [][(wk_pc = "stop_hook_dequeue" /\ wk_pc' = "loop") =>
            /\ pending_responses # <<>>
            /\ pending_responses[1].timestamp = response_timestamp(wk_item)
            /\ pending_responses' = Tail(pending_responses)]_vars

(***************************************************************************)
(* C24: when the session rejects set_playing(True) because it is           *)
(* listening, the playback that asked for the transition is aborted: the   *)
(* output device renders no buffer while the session is listening and has  *)
(* not been switched to playing.                                           *)
(***************************************************************************)
C24_RejectedPlaybackIsAborted == (is_listening /\ ~is_playing) => rendering = 0

(***************************************************************************)
(* C25: statistics updates are serialized.  Once every thread that began   *)
(* an update has returned from it, the statistics are those that some      *)
(* serial order of the same updates produces, and commands_issued_count    *)
(* has grown by the number of update_transcription_time calls.             *)
(***************************************************************************)
Returned == {t \in UpdaterIds : updaters[t].pc = "done"}

ApplyUpdate(t, s) ==
    IF updaters[t].kind = "transcription"
    THEN update_transcription_time(s, updaters[t].duration_ms)
    ELSE update_playback_start_time(s, updaters[t].duration_ms)

RECURSIVE SerialOutcomes(_, _)
SerialOutcomes(T, s) ==
    IF T = {} THEN {s}
    ELSE UNION {SerialOutcomes(T \ {t}, ApplyUpdate(t, s)) : t \in T}

C25_UpdatesAreSerialized ==
    (\A t \in UpdaterIds : updaters[t].pc \in {"idle", "done"}) =>
        /\ statistics \in SerialOutcomes(Returned, StatisticsInit)
        /\ statistics.commands_issued_count =
               Cardinality({t \in Returned : updaters[t].kind = "transcription"})

(***************************************************************************)
(* C26: a play call that finds the player busy fails and leaves the        *)
(* playback in progress alone, so at most one buffer is being rendered at  *)
(* any time, also when two threads call play concurrently.                 *)
(***************************************************************************)
C26_AtMostOneBufferRendered ==
    Cardinality({c \in CallerIds : callers[c].pc = "device"}) <= 1

(***************************************************************************)
(* C27: format detection is a total function of the leading bytes: data    *)
(* beginning with R, I, F, F is wav; data beginning with I, D, 3 or with   *)
(* 0xFF 0xFB is mp3; any other byte string, the empty one included, is     *)
(* wav.  play with a format tag other than wav, mp3 or auto fails with an  *)
(* unsupported-format error, and with the tag auto it decodes with the     *)
(* detected format.                                                        *)
(***************************************************************************)
BeginsRiff(d) == Len(d) >= 4 /\ d[1] = 82 /\ d[2] = 73 /\ d[3] = 70 /\ d[4] = 70
BeginsId3(d) == Len(d) >= 3 /\ d[1] = 73 /\ d[2] = 68 /\ d[3] = 51
BeginsSync(d) == Len(d) >= 2 /\ d[1] = 255 /\ d[2] = 251

C27_FormatDetection ==
    /\ call.op = "detect_format" =>
          /\ call.format \in {"wav", "mp3"}
          /\ call.format = "mp3" <=> (BeginsId3(call.arg) \/ BeginsSync(call.arg))
          /\ call.raised = None
    /\ (call.op = "play" /\ call.tag \notin {"wav", "mp3", "auto"}) =>
          call.raised = "Unsupported audio format"
    /\ (call.op = "play" /\ call.tag = "auto") =>
          /\ call.format = (IF BeginsId3(call.arg) \/ BeginsSync(call.arg) THEN "mp3"
                            ELSE "wav")
          /\ call.raised # "Unsupported audio format"

\* a string that begins with the MPEG sync bytes has been classified, and so
\* has one that begins with R, I, F but is no RIFF header
C27_Witness ==
    /\ call.op = "detect_format"
    /\ \/ call.arg = <<255, 251, 0>> /\ call.format = "mp3"
       \/ call.arg = <<82, 73, 70>> /\ call.format = "wav"

(***************************************************************************)
(* C28: when transcription of a capture fails (every provider failed, the  *)
(* audio was unclear, or a provider crashed), so that the speech-to-text   *)
(* call was made and gave no transcript, only that capture is lost:        *)
(* the last command, the statistics and the delivered commands keep their  *)
(* values and the session is not listening afterwards; and the capture     *)
(* handled right after a failed one, if sufficiently long and not refused  *)
(* for playback, is transcribed, and delivered when transcription          *)
(* succeeds.                                                               *)
(***************************************************************************)
TranscriptionFailures == {"all_failed", "unclear", "crash"}

C28_FailedCaptureOnlyAborted ==
    [][/\ (/\ call'.op = "audio_captured"
           /\ \/ handled'.outcome \in TranscriptionFailures
              \/ handled'.stt_invoked /\ handled'.text = None) =>
            /\ handled'.stt_invoked
            /\ last_command' = last_command
            /\ statistics' = statistics
            /\ commands' = commands
            /\ ~is_listening'
            /\ is_playing' = is_playing
       /\ (/\ handled # Nothing
           /\ handled.outcome \in TranscriptionFailures
           /\ call'.op = "audio_captured"
           /\ ~clip_too_short(call'.arg)
           /\ ~is_playing) =>
            /\ handled'.stt_invoked
            /\ handled'.outcome = "ok" =>
                  /\ commands' = Append(commands, [text |-> handled'.text,
                                                   raised |-> commands'[Len(commands')].raised])
                  /\ last_command'.transcribed_text = handled'.text
                  /\ statistics'.commands_issued_count =
                         statistics.commands_issued_count + 1
                  /\ ~is_listening']_vars

\* a capture whose transcription failed with every provider exhausted has
\* been handled
C28_Witness ==
    /\ call.op = "audio_captured"
    /\ handled # Nothing
    /\ handled.outcome = "all_failed"
    /\ handled.stt_invoked
    /\ ~is_listening

(***************************************************************************)
(* C30: no audio item that was enqueued before a call of interrupt()       *)
(* begins playing after that call has returned.  Items are numbered in the *)
(* order of queue_audio, so the items enqueued before the last interrupt() *)
(* are those numbered up to int_snapshot.n_queued; an item begins playing  *)
(* when the worker's call of player.play passes the busy test and the      *)
(* decoding and marks the player busy.                                     *)
(***************************************************************************)
C30_NoStaleItemAfterInterrupt ==
    [][(/\ interrupts > 0
        /\ int_pc \in {"record", "idle"}
        /\ wk_pc = "play"
        /\ wk_pc' = "start_hook") => wk_item > int_snapshot.n_queued]_vars

(***************************************************************************)
(* C31: while the controller is running and no interrupt occurs, every     *)
(* queued audio item is eventually popped and handed to play, also when    *)
(* the play of an earlier item failed; and the worker goes to the          *)
(* queue-empty notification only from a loop test that found the queue     *)
(* empty.                                                                  *)
(***************************************************************************)
Elements(q) == {q[i] : i \in 1..Len(q)}

C31_EveryItemIsHanded ==
    /\ \A k \in 1..MaxItems : (k \in Elements(queue)) ~> (k \in Elements(handed))
    /\ [][(wk_pc = "loop" /\ wk_pc' = "sleep") => (queue = <<>> /\ queue' = <<>>)]_vars

\* the second item has been handed to play although neither playback-stop
\* hook has run: the play of the first item raised
C31_Witness ==
    /\ handed = <<1, 2>>
    /\ Len(pending_responses) = 2
    /\ wk_pc = "start_hook"

(***************************************************************************)
(* C32: transcribe and synthesize try the providers in an order that is a  *)
(* duplicate-free arrangement of exactly the available providers: the      *)
(* preferred one first when it is available, the others after it in        *)
(* construction order, and the construction order itself otherwise; and a  *)
(* provider that is not available is never attempted.                      *)
(***************************************************************************)
C32_OrderIsOfAvailableProviders ==
    fb_call.svc # None =>
        LET order == fb_call.providers
            available == fb_call.available
        IN  /\ \A i, j \in 1..Len(order) : order[i] = order[j] => i = j
            /\ {order[i] : i \in 1..Len(order)} = {available[i] : i \in 1..Len(available)}
            /\ IF \E i \in 1..Len(available) : available[i] = fb_call.preferred
               THEN /\ order[1] = fb_call.preferred
                    /\ Tail(order) = SelectSeq(available, LAMBDA p : p # fb_call.preferred)
               ELSE order = available
            /\ \A k \in 1..Len(fb_call.result.attempts) :
                  \E i \in 1..Len(available) : available[i] = fb_call.result.attempts[k]

(***************************************************************************)
(* C33: in streaming playback a chunk that fails to decode never aborts    *)
(* the stream.  When the stream was opened and stop() was not called, the  *)
(* loop ends only after every chunk has been decoded, in order; what was   *)
(* written is in chunk order, silence standing for each chunk that did not *)
(* decode (a chunk whose write failed is skipped); no PlaybackError is     *)
(* raised; and after the call has returned is_playing is false.            *)
(***************************************************************************)
C33_BadChunkNeverAbortsStream ==
    (/\ streamer.mode = "streaming"
     /\ streamer.opened
     /\ streamer.limit = -1
     /\ streamer.pc \in {"finally", "stop_hook", "idle"}) =>
        /\ streamer.attempted = [k \in 1..Len(streamer.chunks) |-> k]
        /\ streamer.result # "PlaybackError"
        /\ \A k \in 1..Len(streamer.written) :
              /\ streamer.written[k].audio =
                     (IF streamer.chunks[streamer.written[k].chunk] = "mp3"
                      THEN "audio" ELSE "silence")
              /\ \A l \in 1..Len(streamer.written) :
                     k < l => streamer.written[k].chunk < streamer.written[l].chunk
        /\ streamer.pc = "idle" => ~player_is_playing

\* a stream whose first chunk is garbage has been played to the end: silence
\* was written for it and the second chunk after it
C33_Witness ==
    /\ streamer.pc = "idle"
    /\ streamer.result = "returned"
    /\ streamer.chunks = <<"garbage", "mp3">>
    /\ streamer.written = <<[chunk |-> 1, audio |-> "silence"],
                            [chunk |-> 2, audio |-> "audio"]>>
    /\ ~player_is_playing

(***************************************************************************)
(* C34: cancellation is cooperative.  Once stop() has set the flag during  *)
(* a play or play_streaming call, nothing is sent to the output device     *)
(* after the chunk that was being decoded or written at that moment.       *)
(* streamer.limit is the number of device writes of the call counted when  *)
(* the flag was set, plus one if a chunk was then in progress.             *)
(***************************************************************************)
C34_NothingWrittenAfterStop ==
    streamer.limit # -1 => Len(streamer.written) <= streamer.limit

(***************************************************************************)
(* C38: when opening or starting the input stream fails inside             *)
(* start_recording, capture is left inactive (flag false, no stream), so   *)
(* the start_recording call after it opens the stream again instead of     *)
(* returning early.                                                        *)
(***************************************************************************)
C38_FailedStartLeavesCaptureInactive ==
    [][(call'.op = "start_recording" /\ call'.raised) =>
            /\ ~is_recording'
            /\ stream' = None
            /\ ~start_returns_early']_vars

(***************************************************************************)
(* C37: the playback-start and playback-stop hooks of the engine strictly  *)
(* alternate (each start hook is followed by exactly one stop hook before  *)
(* the next start hook), and whenever no play or play_streaming call is in *)
(* progress - the last call returned or raised, a raising hook included -  *)
(* the playing flag is false and every start hook has had its stop hook.   *)
(***************************************************************************)
C37_HooksAlternateAndFlagIsCleared ==
    /\ streamer.starts - streamer.stops \in {0, 1}
    /\ streamer.pc = "idle" =>
            /\ ~player_is_playing
            /\ streamer.starts = streamer.stops

(***************************************************************************)
(* C36: a PendingResponse never outlives its audio: whenever the playback  *)
(* queue is empty, the player is not playing and the worker is back in its *)
(* loop (the queued audio finished or failed to decode), the session's     *)
(* pending-response FIFO is empty.                                         *)
(***************************************************************************)
C36_NoPendingResponseWithoutAudio ==
    (queue = <<>> /\ ~player_is_playing /\ wk_pc \in {"loop", "sleep"})
        => pending_responses = <<>>

(***************************************************************************)
(* C35: the device callback never waits for the capture lock and never     *)
(* starts or stops the capture, so a callback that has been entered always *)
(* returns; and stop_recording, which holds the lock while it waits for    *)
(* the input stream to stop, always gets on and returns: it cannot         *)
(* deadlock with a callback that is in progress.                           *)
(***************************************************************************)
C35_StopNeverDeadlocksWithCallback ==
    /\ (lk.cb = "test") ~> (lk.cb = "idle")
    /\ (lk.pc = "stream_stop") ~> (lk.pc = "idle" /\ lk.owner = "none")
    /\ [][lk'.cb # lk.cb =>
            /\ lk'.owner = lk.owner
            /\ lk'.pc = lk.pc
            /\ UNCHANGED <<is_recording, stream>>]_vars

\* stop_recording holds the lock and waits for the stream while a callback
\* is in progress
C35_Witness ==
    /\ lk.pc = "stream_stop"
    /\ lk.owner = "caller"
    /\ lk.cb = "test"

(***************************************************************************)
(* C39: once InputOrchestrator.stop() has returned and until the next      *)
(* start(), capture is inactive (not recording, no input stream) and the   *)
(* command sink is not invoked: no command is delivered in that interval,  *)
(* also when the chord was held or a transcription was in flight on the    *)
(* listener's thread when stop() was called.                               *)
(***************************************************************************)
C39_StopReturned == mgr.stops > 0 /\ ~mgr.is_active /\ mgr.pc = "idle"

C39_NothingHappensAfterStop ==
    /\ [](C39_StopReturned => (~is_recording /\ stream = None))
    /\ [][C39_StopReturned => commands' = commands]_vars

====
